---- MODULE Spec2Model ----
(***************************************************************************)
(* Resilience layer of TW3 (src/src/resilience.py).                        *)
(*                                                                         *)
(* CircuitBreaker: the breaker object `cb`, a wall clock `now` and a set   *)
(* of callers, each going through wrapper -> _call -> func -> _on_success  *)
(* / _on_failure.  Spec lets one caller at a time into the breaker         *)
(* (non-overlapping callers); SpecConc lets callers overlap (threads).     *)
(*                                                                         *)
(* retry_with_backoff: one call of the retry wrapper, `rt` (SpecRetry,     *)
(* SpecRetryFair).                                                         *)
(*                                                                         *)
(* RateLimiter: the limiter object `rl` and its callers `lim`              *)
(* (SpecLimiter: non-overlapping callers, SpecLimiterConc: overlapping).   *)
(*                                                                         *)
(* InMemoryCache (src/src/cache.py): the cache object `cache` used by      *)
(* non-overlapping callers (SpecCache; SpecStore for longer runs with      *)
(* fewer arguments), with keys as the caller passes                        *)
(* them (SpecKeys: _make_key), and by callers in threads next to the       *)
(* sweep (SpecCacheConc).  CacheManager: the two caches `mgr` and the      *)
(* periodic sweep of both (SpecManager).                                   *)
(*                                                                         *)
(* Background tasks: the sweep task of CacheManager and the poll task of   *)
(* HealthCheckManager (src/src/monitoring.py), started and stopped as      *)
(* lifespan does (SpecTasks, SpecTasksFair).  HealthCheckManager: the      *)
(* checkers, the reports and the snapshots `hm` written by the poll        *)
(* (SpecHealth; SpecReport for the overall status alone).                  *)
(*                                                                         *)
(* format_news_context (src/docker/images/backend/main.py): the news       *)
(* cache, the breaker and the retry wrapper around the NewsAPI fetch       *)
(* (SpecNews).                                                             *)
(***************************************************************************)
EXTENDS Integers, FiniteSets, Sequences, TLC

\* ---------------------------------------------------------------- bounds
MaxThreshold == 2
MaxTimeout == 2
MaxTime == 3
NumCallers == 2
MaxProbes == 2
MaxAttempts == 3
MaxBaseDelay == 2
MaxExpBase == 2
MaxDelayCap == 4
MaxCalls == 2
MaxWindow == 2
MaxLimTime == 3
MaxCacheOps == 3
MaxStoreOps == 4
MaxCacheTime == 2
MaxKeyOps == 2
MaxConcOps == 3
MaxMgrOps == 4
MaxMgrTime == 3
MaxTasks == 2
MaxLogged == 1
MaxTicks == 2
MaxNewsOps == 4
MaxNewsTime == 2

\* ------------------------------------------------------------- constants
\* last_failure_time: Optional[float] = None
NoTime == -1

Callers == 1..NumCallers

\* values the wrapped operation can return
Values == {"v1", "v2"}
\* failures of the wrapped operation inside the expected_exception category
ExpectedExc == {"E1", "E2"}
\* failures of the wrapped operation outside the expected_exception category
OtherExc == {"X1", "X2"}
\* Exception("Circuit breaker OPEN - service indisponible")
CircuitOpenExc == "CircuitOpen"
\* everything one invocation of func can end with
OpResults == Values \cup ExpectedExc \cup OtherExc

Min(a, b) == IF a <= b THEN a ELSE b

VARIABLES
    cb,       \* the CircuitBreaker object: its fields
    now,      \* time.time()
    pc,       \* per caller: "idle" | "called" | "running"
    seen,     \* per caller: the value of self.state read at line 45
    invoked,  \* per caller: invocations of func made by the current call
    opRes,    \* per caller: what func returned or raised in the current call
    out,      \* per caller: what the wrapper returned or raised to the caller
    consec,   \* history: expected failures since the last successful call
    probes,   \* history: invocations of func begun since the breaker last
              \* left Open for HalfOpen (saturating at MaxProbes)
    rt,       \* one call of the retry_with_backoff wrapper: the decorator's
              \* parameters, the loop's locals, and the attempts and sleeps
              \* made so far
    rl,       \* the RateLimiter object: its fields
    lim,      \* per caller of the limiter: position in the wrapper, what the
              \* wrapper gave back, invocations of func
    admitted, \* history: the timestamps registered by admitted calls
    cache,    \* the InMemoryCache object: its fields; _cache is kept in
              \* insertion order, as the dict keeps it
    clast,    \* the last cache operation and what it returned
    setLog,   \* history, per key: the last set of the key (time, ttl passed,
              \* value), forgotten when the key is cleared or evicted
    cops,     \* history: the number of cache operations made
    cstat,    \* what get_stats returned, when it was the last operation
    thr,      \* per caller of the cache from a thread: position in get or
              \* set, the arguments, the entry object fetched and whether the
              \* dict still holds it, the value read for an increment, the
              \* key picked for eviction, what the call returned or raised
    sw,       \* the sweep: position, the expired keys left to delete, the
              \* exception _cleanup_expired_entries raised
    chist,    \* history: operations begun, gets that returned a value,
              \* sets that found the cache full
    mgr,      \* the CacheManager object: news_cache.cache and
              \* model_cache.cache, each an InMemoryCache
    mlast,    \* the last operation made through the manager, what it
              \* returned, how many entries a sweep removed from each cache,
              \* and the number of operations made
    klog,     \* history: the get and set calls made with keys as the caller
              \* passes them (string, dict, list, other), each with the
              \* canonical key used and what the call returned or raised
    bg,       \* per manager (CacheManager, HealthCheckManager): the task
              \* handle (_cleanup_task, _background_task), the tasks created
              \* so far with the position of each in its loop, and whether
              \* a stop call is waiting for the task it cancelled
    hm,       \* the HealthCheckManager object: _last_checks
    hlast,    \* what the last get_full_health_report returned, with the
              \* outcomes of the probes and the metrics it sampled
    health_manager,  \* main.py's global: the manager, or None
    nlast     \* the last call of format_news_context: its query, what the
              \* API did at each fetch, the fetches and sleeps made, whether
              \* the cache answered, whether the breaker was entered, what
              \* was stored in the cache and what the call returned

breakerVars == <<cb, pc, seen, invoked, opRes, out, consec, probes>>
retryVars == <<rt>>
limiterVars == <<rl, lim, admitted>>
cacheVars == <<cache, clast, setLog, cops, cstat, klog, thr, sw, chist,
               mgr, mlast>>
svcVars == <<bg, hm, hlast, health_manager, nlast>>

vars == <<cb, now, pc, seen, invoked, opRes, out, consec, probes, rt,
          rl, lim, admitted, cache, clast, setLog, cops, cstat, klog,
          thr, sw, chist, mgr, mlast, bg, hm, hlast, health_manager, nlast>>

\* --------------------------------------------------------- CircuitBreaker
\* CircuitBreaker.__init__
NewBreaker(threshold, timeout) ==
    [failure_threshold |-> threshold,
     recovery_timeout  |-> timeout,
     failure_count     |-> 0,
     last_failure_time |-> NoTime,
     state             |-> "closed"]

\* variant: every failure is caught
IsExpected_All(e) == TRUE

\* except self.expected_exception
IsExpected(e) == e \in ExpectedExc

\* variant: the recovery timeout is not waited for
ShouldAttemptReset_NoWait(b, t) ==
    b.last_failure_time # NoTime

\* variant: strict comparison with the recovery timeout
ShouldAttemptReset_Strict(b, t) ==
    /\ b.last_failure_time # NoTime
    /\ t - b.last_failure_time > b.recovery_timeout

\* CircuitBreaker._should_attempt_reset
ShouldAttemptReset(b, t) ==
    /\ b.last_failure_time # NoTime
    /\ t - b.last_failure_time >= b.recovery_timeout

\* variant: the failure counter is not reset
OnSuccess_KeepCount(b) ==
    [b EXCEPT !.state = "closed"]

\* variant: only a successful probe resets the breaker
OnSuccess_OnlyHalfOpen(b) ==
    IF b.state = "half_open"
    THEN [b EXCEPT !.failure_count = 0, !.state = "closed"]
    ELSE b

\* CircuitBreaker._on_success
OnSuccess(b) ==
    [b EXCEPT !.failure_count = 0, !.state = "closed"]

\* variant: the breaker opens one failure early
OnFailure_OffByOne(b, t) ==
    LET n == b.failure_count + 1
    IN  [b EXCEPT !.failure_count = n,
                  !.last_failure_time = t,
                  !.state = IF n + 1 >= b.failure_threshold THEN "open" ELSE @]

\* variant: the breaker opens one failure late
OnFailure_Late(b, t) ==
    LET n == b.failure_count + 1
    IN  [b EXCEPT !.failure_count = n,
                  !.last_failure_time = t,
                  !.state = IF n > b.failure_threshold THEN "open" ELSE @]

\* variant: the counter stops at the threshold
OnFailure_Capped(b, t) ==
    LET n == IF b.failure_count >= b.failure_threshold
             THEN b.failure_count ELSE b.failure_count + 1
    IN  [b EXCEPT !.failure_count = n,
                  !.last_failure_time = t,
                  !.state = IF n >= b.failure_threshold THEN "open" ELSE @]

\* variant: the time of the failure is not recorded
OnFailure_NoStamp(b, t) ==
    LET n == b.failure_count + 1
    IN  [b EXCEPT !.failure_count = n,
                  !.state = IF n >= b.failure_threshold THEN "open" ELSE @]

\* CircuitBreaker._on_failure
OnFailure(b, t) ==
    LET n == b.failure_count + 1
    IN  [b EXCEPT !.failure_count = n,
                  !.last_failure_time = t,
                  !.state = IF n >= b.failure_threshold THEN "open" ELSE @]

\* CircuitBreaker._call, lines 45-50: TRUE when the call is let through
Admits(b, t) == b.state = "open" => ShouldAttemptReset(b, t)

\* CircuitBreaker._call, lines 45-48: the breaker after the gate
AfterGate(b, t) ==
    IF b.state = "open" /\ ShouldAttemptReset(b, t)
    THEN [b EXCEPT !.state = "half_open"]
    ELSE b

\* CircuitBreaker._call, lines 52-58: the breaker after func ended with r
AfterCall(b, r, t) ==
    IF r \in Values THEN OnSuccess(b)
    ELSE IF IsExpected(r) THEN OnFailure(b, t)
    ELSE b

\* CircuitBreaker._call, lines 52-58: what the caller gets when func ended with r
CallResult(r) == r

\* ----------------------------------------------------- retry_with_backoff
\* failures of the wrapped operation matched by `except exceptions`
RetryableExc == {"R1", "R2"}
\* failures of the wrapped operation not matched by `except exceptions`
FatalExc == {"F1", "F2"}
\* everything one attempt can end with
AttemptResults == Values \cup RetryableExc \cup FatalExc

RECURSIVE Pow(_, _)
Pow(b, n) == IF n = 0 THEN 1 ELSE b * Pow(b, n - 1)

\* retry_with_backoff(max_attempts, base_delay, max_delay, exponential_base)
\* and the wrapper's locals before the loop (line 106)
NewRetry(maxAttempts, baseDelay, maxDelay, expBase) ==
    [max_attempts     |-> maxAttempts,
     base_delay       |-> baseDelay,
     max_delay        |-> maxDelay,
     exponential_base |-> expBase,
     pc               |-> "idle",
     attempt          |-> 0,
     last_exception   |-> "none",
     delay            |-> 0,
     log              |-> <<>>,
     sleeps           |-> <<>>,
     result           |-> "none"]

\* variant: every failure is retried
IsRetryable_All(e) == TRUE

\* except exceptions as e (line 111)
IsRetryable(e) == e \in RetryableExc

\* variant: the delay is not capped
Delay_NoCap(r, attempt) ==
    r.base_delay * Pow(r.exponential_base, attempt)

\* lines 122-125: min(base_delay * exponential_base ** attempt, max_delay)
Delay(r, attempt) ==
    Min(r.base_delay * Pow(r.exponential_base, attempt), r.max_delay)

\* variant: a successful attempt does not leave the loop
AttemptOutcome_NoShortCircuit(r, res) ==
    IF res \in Values
    THEN IF r.attempt = r.max_attempts - 1 THEN "return" ELSE "sleep"
    ELSE IF ~IsRetryable(res) THEN "propagate"
    ELSE IF r.attempt = r.max_attempts - 1 THEN "raise"
    ELSE "sleep"

\* lines 109-132: what the loop body does when func ended with res
AttemptOutcome(r, res) ==
    IF res \in Values THEN "return"
    ELSE IF ~IsRetryable(res) THEN "propagate"
    ELSE IF r.attempt = r.max_attempts - 1 THEN "raise"
    ELSE "sleep"

\* variant: the first failure is raised at the end
RaisedOnLast_First(r, e) == IF r.log = <<>> THEN e ELSE r.log[1]

\* line 119: raise e
RaisedOnLast(r, e) == e

\* ------------------------------------------------------------ RateLimiter
\* Exception("Rate limit atteint: ...")
RateLimitExc == "RateLimit"

\* what func ends with when called through the limiter
LimResults == {"v1", "E1"}

\* RateLimiter.__init__
NewLimiter(maxCalls, window) ==
    [max_calls |-> maxCalls, time_window |-> window, calls |-> <<>>]

\* variant: timestamps are forgotten one time unit early
Prune_Early(calls, t, w) ==
    SelectSeq(calls, LAMBDA x : t - x < w - 1)

\* RateLimiter._can_make_call, lines 170-171: the timestamps kept
Prune(calls, t, w) ==
    SelectSeq(calls, LAMBDA x : t - x < w)

\* variant: the quota is compared with <=
HasQuota_Inclusive(l) == Len(l.calls) <= l.max_calls

\* RateLimiter._can_make_call, line 173
HasQuota(l) == Len(l.calls) < l.max_calls

\* RateLimiter._register_call
Register(l, t) == [l EXCEPT !.calls = Append(@, t)]

\* ---------------------------------------------------------- InMemoryCache
\* the canonical keys in use
Keys == {"k1", "k2", "k3"}
\* what get returns on a miss (None)
Miss == "MISS"
\* set(key, value) without a ttl argument (ttl=None)
NoTtl == -1

\* InMemoryCache.__init__
NewCache(maxSize, defaultTtl) ==
    [max_size    |-> maxSize,
     default_ttl |-> defaultTtl,
     entries     |-> <<>>,
     stats       |-> [hits |-> 0, misses |-> 0, evictions |-> 0]]

\* ttl arguments a caller passes to set: none, 0, or a positive duration
TtlArgs == {NoTtl, 0, 1}

\* InMemoryCache(max_size, default_ttl): the configurations in use
CacheConfigs ==
    {[max_size |-> 1, default_ttl |-> 1], [max_size |-> 2, default_ttl |-> 2]}

\* the position of key k in the dict, 0 when it is not stored
IndexOf(entries, k) ==
    IF \E i \in 1..Len(entries) : entries[i].key = k
    THEN CHOOSE i \in 1..Len(entries) : entries[i].key = k
    ELSE 0

\* entries without the one at position i (del self._cache[key])
RemoveAt(entries, i) ==
    [j \in 1..(Len(entries) - 1) |-> IF j < i THEN entries[j] ELSE entries[j + 1]]

\* variant: an entry expires when its age reaches the ttl
IsExpired_Inclusive(e, t) == t - e.timestamp >= e.ttl

\* CacheEntry.is_expired
IsExpired(e, t) == t - e.timestamp > e.ttl

\* set, line 79: ttl = ttl or self.default_ttl (None and 0 are both falsy)
EffectiveTtl(c, ttlArg) ==
    IF ttlArg = NoTtl \/ ttlArg = 0 THEN c.default_ttl ELSE ttlArg

\* variant: the oldest entry is evicted, whatever its hit_count
LruIndex_Oldest(entries) ==
    CHOOSE i \in 1..Len(entries) :
        \A j \in 1..Len(entries) :
            \/ entries[i].timestamp < entries[j].timestamp
            \/ /\ entries[i].timestamp = entries[j].timestamp
               /\ i <= j

\* _evict_lru, lines 97-100: min over the keys, in dict order, of
\* (hit_count, timestamp); the first minimal key wins
LruIndex(entries) ==
    CHOOSE i \in 1..Len(entries) :
        \A j \in 1..Len(entries) :
            \/ entries[i].hit_count < entries[j].hit_count
            \/ /\ entries[i].hit_count = entries[j].hit_count
               /\ entries[i].timestamp < entries[j].timestamp
            \/ /\ entries[i].hit_count = entries[j].hit_count
               /\ entries[i].timestamp = entries[j].timestamp
               /\ i <= j

\* variant: the eviction is not counted
EvictLru_NoCount(c) ==
    IF c.entries = <<>> THEN c
    ELSE [c EXCEPT !.entries = RemoveAt(@, LruIndex(@))]

\* InMemoryCache._evict_lru
EvictLru(c) ==
    IF c.entries = <<>> THEN c
    ELSE [c EXCEPT !.entries = RemoveAt(@, LruIndex(@)),
                   !.stats.evictions = @ + 1]

\* variant: a hit is not counted on the entry
GetState_NoEntryHit(c, k, t) ==
    LET i == IndexOf(c.entries, k)
    IN  IF i = 0 THEN [c EXCEPT !.stats.misses = @ + 1]
        ELSE IF IsExpired(c.entries[i], t)
        THEN [c EXCEPT !.entries = RemoveAt(@, i), !.stats.misses = @ + 1]
        ELSE [c EXCEPT !.stats.hits = @ + 1]

\* InMemoryCache.get: the cache after get(k) at time t
GetState(c, k, t) ==
    LET i == IndexOf(c.entries, k)
    IN  IF i = 0 THEN [c EXCEPT !.stats.misses = @ + 1]
        ELSE IF IsExpired(c.entries[i], t)
        THEN [c EXCEPT !.entries = RemoveAt(@, i), !.stats.misses = @ + 1]
        ELSE [c EXCEPT !.entries[i].hit_count = @ + 1, !.stats.hits = @ + 1]

\* InMemoryCache.get: what get(k) returns at time t
GetResult(c, k, t) ==
    LET i == IndexOf(c.entries, k)
    IN  IF i = 0 THEN Miss
        ELSE IF IsExpired(c.entries[i], t) THEN Miss
        ELSE c.entries[i].value

\* variant: set never evicts
SetState_NoEvict(c, k, v, ttlArg, t) ==
    LET e == [key |-> k, value |-> v, timestamp |-> t,
              ttl |-> EffectiveTtl(c, ttlArg), hit_count |-> 0]
        i == IndexOf(c.entries, k)
    IN  IF i = 0 THEN [c EXCEPT !.entries = Append(@, e)]
        ELSE [c EXCEPT !.entries[i] = e]

\* InMemoryCache.set: the cache after set(k, v, ttlArg) at time t
SetState(c, k, v, ttlArg, t) ==
    LET full == Len(c.entries) >= c.max_size /\ IndexOf(c.entries, k) = 0
        c1 == IF full THEN EvictLru(c) ELSE c
        e == [key |-> k, value |-> v, timestamp |-> t,
              ttl |-> EffectiveTtl(c, ttlArg), hit_count |-> 0]
        i == IndexOf(c1.entries, k)
    IN  IF i = 0 THEN [c1 EXCEPT !.entries = Append(@, e)]
        ELSE [c1 EXCEPT !.entries[i] = e]

\* variant: clear also resets the counters
ClearState_ResetStats(c) ==
    [c EXCEPT !.entries = <<>>,
              !.stats = [hits |-> 0, misses |-> 0, evictions |-> 0]]

\* InMemoryCache.clear
ClearState(c) == [c EXCEPT !.entries = <<>>]

\* variant: the sweep also removes the entries whose age equals their ttl
CleanupExpired_Inclusive(c, t) ==
    [c EXCEPT !.entries = SelectSeq(@, LAMBDA e : ~IsExpired_Inclusive(e, t))]

\* variant: the sweep resets the hit_count of the entries it keeps
CleanupExpired_ResetHits(c, t) ==
    [c EXCEPT !.entries =
        [i \in 1..Len(SelectSeq(@, LAMBDA e : ~IsExpired(e, t))) |->
            [SelectSeq(@, LAMBDA e : ~IsExpired(e, t))[i] EXCEPT !.hit_count = 0]]]

\* CacheManager._cleanup_expired_entries(cache) at time t
CleanupExpired(c, t) ==
    [c EXCEPT !.entries = SelectSeq(@, LAMBDA e : ~IsExpired(e, t))]

\* no get_stats report
NoStats ==
    [reported |-> FALSE, hits |-> 0, misses |-> 0, evictions |-> 0,
     hit_rate |-> [num |-> 0, den |-> 1], cache_size |-> 0, max_size |-> 0]

\* variant: the rate is taken over the misses
GetStats_MissRate(c) ==
    LET total_requests == c.stats.hits + c.stats.misses
    IN  [reported   |-> TRUE,
         hits       |-> c.stats.hits,
         misses     |-> c.stats.misses,
         evictions  |-> c.stats.evictions,
         hit_rate   |-> IF total_requests > 0
                        THEN [num |-> c.stats.misses, den |-> total_requests]
                        ELSE [num |-> 0, den |-> 1],
         cache_size |-> Len(c.entries),
         max_size   |-> c.max_size]

\* InMemoryCache.get_stats; hit_rate is the quotient num / den
GetStats(c) ==
    LET total_requests == c.stats.hits + c.stats.misses
    IN  [reported   |-> TRUE,
         hits       |-> c.stats.hits,
         misses     |-> c.stats.misses,
         evictions  |-> c.stats.evictions,
         hit_rate   |-> IF total_requests > 0
                        THEN [num |-> c.stats.hits, den |-> total_requests]
                        ELSE [num |-> 0, den |-> 1],
         cache_size |-> Len(c.entries),
         max_size   |-> c.max_size]

\* set, lines 85-89: the new entry is stored under the key
StoreEntry(c, k, v, ttlArg, t) ==
    LET e == [key |-> k, value |-> v, timestamp |-> t,
              ttl |-> EffectiveTtl(c, ttlArg), hit_count |-> 0]
        i == IndexOf(c.entries, k)
    IN  IF i = 0 THEN [c EXCEPT !.entries = Append(@, e)]
        ELSE [c EXCEPT !.entries[i] = e]

\* the exception del and [] raise on a key the dict does not hold
KeyErrorExc == "KeyError"

\* no entry object held
NoEntry ==
    [key |-> "none", value |-> "none", timestamp |-> NoTime, ttl |-> NoTtl,
     hit_count |-> 0]

\* a caller not inside get or set
IdleThread ==
    [pc |-> "idle", op |-> "none", key |-> "none", value |-> "none",
     ent |-> NoEntry, attached |-> FALSE, counter |-> "none", tmp |-> 0,
     lru |-> "none", out |-> "none"]

\* the sweep not running
IdleSweep == [pc |-> "idle", keys |-> <<>>, out |-> "none"]

\* the object stored under key k leaves the dict (del, or a new entry is
\* stored under k): the callers holding it keep the object, not the dict's
Detach(t, k) ==
    [c \in DOMAIN t |->
        IF t[c].ent.key = k THEN [t[c] EXCEPT !.attached = FALSE] ELSE t[c]]

\* the keys stored
StoredKeys(c) == {c.entries[i].key : i \in 1..Len(c.entries)}

\* the entry stored for key k
EntryOf(c, k) ==
    CHOOSE e \in {c.entries[i] : i \in 1..Len(c.entries)} : e.key = k

\* the hit_count stored for key k
HitCountOf(c, k) == EntryOf(c, k).hit_count

\* ----------------------------------------------------------- CacheManager
\* the durations and capacities of the two caches, scaled down: the news
\* cache is the larger one (500 against 200), set_news passes a ttl (900)
\* shorter than the default of either cache (1800, 7200)
NewsMaxSize == 2
NewsDefaultTtl == 2
NewsTtl == 1
ModelMaxSize == 1
ModelDefaultTtl == 2

\* the canonical keys in use through the manager
MgrKeys == {"k1", "k2"}

\* CacheManager.__init__, NewsCache.__init__, ModelCache.__init__
NewManager ==
    [news_cache  |-> NewCache(NewsMaxSize, NewsDefaultTtl),
     model_cache |-> NewCache(ModelMaxSize, ModelDefaultTtl)]

\* no operation made through the manager yet
NoMgrOp ==
    [op |-> "none", key |-> "none", result |-> "none",
     removed |-> [news_cache |-> 0, model_cache |-> 0], n |-> 0]

\* _periodic_cleanup, lines 202-203: one sweep of both caches at time t
SweepAll(m, t) ==
    [news_cache  |-> CleanupExpired(m.news_cache, t),
     model_cache |-> CleanupExpired(m.model_cache, t)]

\* ------------------------------------------------------------ _make_key
\* the exception json.dumps raises on a value it cannot serialize
TypeErrorExc == "TypeError"

\* values a key holds: the int 1, the string "1", and a set, which json
\* cannot serialize; repr is str(value)
KeyValues ==
    {[type |-> "int", repr |-> "1"], [type |-> "str", repr |-> "1"],
     [type |-> "set", repr |-> "{1}"]}

\* the field names of structured keys, in lexicographic order
FieldOrder == <<"a", "b">>
FieldNames == {FieldOrder[i] : i \in 1..Len(FieldOrder)}

\* a key as the caller passes it: a string, a dict (its items in insertion
\* order), a list, or a value of another type
StrKeys ==
    {[kind |-> "str", items |-> <<[name |-> "", value |-> v]>>] :
        v \in {w \in KeyValues : w.type = "str"}}
OtherKeys ==
    {[kind |-> "other", items |-> <<[name |-> "", value |-> v]>>] :
        v \in {w \in KeyValues : w.type # "str"}}
ListKeys ==
    {[kind |-> "list", items |-> <<[name |-> "", value |-> v]>>] :
        v \in KeyValues}
DictKeys ==
    {[kind |-> "dict", items |-> <<[name |-> n, value |-> v]>>] :
        n \in FieldNames, v \in KeyValues}
    \cup
    {[kind |-> "dict",
      items |-> <<[name |-> n[1], value |-> v1], [name |-> n[2], value |-> v2]>>] :
        n \in {m \in FieldNames \X FieldNames : m[1] # m[2]},
        v1 \in KeyValues, v2 \in KeyValues}
RawKeys == StrKeys \cup OtherKeys \cup ListKeys \cup DictKeys

\* json.dumps of one value
JsonValue(v) ==
    IF v.type = "str" THEN "\"" \o v.repr \o "\"" ELSE v.repr

\* json.dumps raises TypeError on the key
Unserializable(key) ==
    \E i \in 1..Len(key.items) : key.items[i].value.type = "set"

\* variant: the items are serialized in insertion order
SortedItems_Unsorted(items) == items

\* sort_keys=True: the items of a dict in the order of their names
SortedItems(items) ==
    LET present == SelectSeq(FieldOrder,
                       LAMBDA n : \E i \in 1..Len(items) : items[i].name = n)
    IN  [j \in 1..Len(present) |->
            items[CHOOSE i \in 1..Len(items) : items[i].name = present[j]]]

RECURSIVE JoinItems(_, _)
\* ", ".join of the serialized items; withNames for a dict
JoinItems(items, withNames) ==
    IF items = <<>> THEN ""
    ELSE LET it == Head(items)
             one == IF withNames
                    THEN "\"" \o it.name \o "\": " \o JsonValue(it.value)
                    ELSE JsonValue(it.value)
         IN  IF Len(items) = 1 THEN one
             ELSE one \o ", " \o JoinItems(Tail(items), withNames)

\* json.dumps(key, sort_keys=True) of a dict or a list
JsonDumps(key) ==
    IF key.kind = "dict"
    THEN "{" \o JoinItems(SortedItems(key.items), TRUE) \o "}"
    ELSE "[" \o JoinItems(key.items, FALSE) \o "]"

\* hashlib.md5(serialized.encode()).hexdigest(): a digest that depends on
\* the serialized text only
Md5(serialized) == "md5(" \o serialized \o ")"

\* InMemoryCache._make_key: the canonical key, or the exception raised
MakeKey(key) ==
    IF key.kind = "str" THEN [raised |-> FALSE, key |-> key.items[1].value.repr]
    ELSE IF key.kind \in {"dict", "list"}
    THEN IF Unserializable(key)
         THEN [raised |-> TRUE, key |-> TypeErrorExc]
         ELSE [raised |-> FALSE, key |-> Md5(JsonDumps(key))]
    ELSE [raised |-> FALSE, key |-> key.items[1].value.repr]

\* ------------------------------------------------------ background tasks
\* the two managers that own a background task: CacheManager
\* (_cleanup_task, _periodic_cleanup) and HealthCheckManager
\* (_background_task, _background_health_checks)
Managers == {"cache", "health"}

\* self._cleanup_task = None, self._background_task = None
NoTask == 0

\* asyncio.create_task(...): a task that has not run yet.  pc is the place
\* the coroutine is at: "new", "sleeping" (await asyncio.sleep), "checking"
\* (await asyncio.gather), "done"; cancel is the request made by
\* Task.cancel()
NewTask == [pc |-> "new", cancel |-> FALSE]

\* CacheManager.__init__ line 178, HealthCheckManager.__init__ line 210:
\* no task.  tasks are the tasks created so far, stopping says that a stop
\* call is at its await; logged counts the logger.error calls of the
\* manager's loop and ticks the iterations that ran to their end
NewBackground ==
    [handle |-> NoTask, tasks |-> <<>>, stopping |-> FALSE,
     logged |-> 0, ticks |-> 0]

\* variant: the handle is not looked at
StartTask_Always(b) ==
    [b EXCEPT !.tasks = Append(@, NewTask), !.handle = Len(b.tasks) + 1]

\* start_cleanup_task, start_background_checks
StartTask(b) ==
    IF b.handle = NoTask
    THEN [b EXCEPT !.tasks = Append(@, NewTask), !.handle = Len(b.tasks) + 1]
    ELSE b

\* stop_cleanup_task, stop_background_checks up to the await: cancel()
CancelTask(b) ==
    IF b.handle # NoTask
    THEN [b EXCEPT !.tasks[b.handle].cancel = TRUE, !.stopping = TRUE]
    ELSE b

\* stop_cleanup_task, stop_background_checks after the await: the handle
\* is forgotten
ForgetTask(b) == [b EXCEPT !.handle = NoTask, !.stopping = FALSE]

\* the loops' `except asyncio.CancelledError: break`
OnCancelled(t) == [t EXCEPT !.pc = "done"]

\* variant: the loop ends at the first error
OnIterationError_Exit(t) == [t EXCEPT !.pc = "done"]

\* the loops' `except Exception as e: logger.error(...)`: the task goes to
\* the next round of `while True`, which begins with the sleep
OnIterationError(t) == [t EXCEPT !.pc = "sleeping"]

\* the tasks of a manager that have not finished
Running(b) == {i \in DOMAIN b.tasks : b.tasks[i].pc # "done"}

\* ---------------------------------------------------- HealthCheckManager
Services == {"newsapi", "model"}

\* error_message = None
NoMessage == "None"

\* ServiceHealth(name=..., status=..., error_message=...)
ServiceHealth(name, status, msg) ==
    [name |-> name, status |-> status, error_message |-> msg]

\* _last_checks.get(service_name) when the service has no snapshot
NoCheck == ServiceHealth("none", "none", NoMessage)

\* what the probe of NewsAPI can meet: 200 with status ok, 200 with another
\* status, another HTTP status, asyncio.TimeoutError, any other exception
NewsProbes == {"ok", "api_error", "http_error", "timeout", "exception"}

\* what the probe of the model can meet: a generation, an empty result, an
\* exception
ModelProbes == {"ok", "empty", "exception"}

\* the probes that are failures: exceptions, timeouts, HTTP errors
FailedProbes == {"http_error", "timeout", "exception"}

\* variant: exceptions other than the timeout are not caught
NewsCheckHealth_Raises(p) ==
    [raised |-> (p = "exception"),
     health |->
        CASE p = "ok" -> ServiceHealth("NewsAPI", "healthy", NoMessage)
          [] p = "api_error" ->
                ServiceHealth("NewsAPI", "degraded", "Unknown API error")
          [] p = "http_error" ->
                ServiceHealth("NewsAPI", "unhealthy", "HTTP 500")
          [] p = "timeout" ->
                ServiceHealth("NewsAPI", "unhealthy", "Timeout 5 s")
          [] OTHER -> NoCheck]

\* NewsAPIHealthChecker.check_health: what it returns, and whether it raises
NewsCheckHealth(p) ==
    [raised |-> FALSE,
     health |->
        CASE p = "ok" -> ServiceHealth("NewsAPI", "healthy", NoMessage)
          [] p = "api_error" ->
                ServiceHealth("NewsAPI", "degraded", "Unknown API error")
          [] p = "http_error" ->
                ServiceHealth("NewsAPI", "unhealthy", "HTTP 500")
          [] p = "timeout" ->
                ServiceHealth("NewsAPI", "unhealthy", "Timeout 5 s")
          [] OTHER -> ServiceHealth("NewsAPI", "unhealthy", "str(e)")]

\* ModelHealthChecker.check_health: what it returns, and whether it raises
ModelCheckHealth(p) ==
    [raised |-> FALSE,
     health |->
        CASE p = "ok" -> ServiceHealth("QwenModel", "healthy", NoMessage)
          [] p = "empty" ->
                ServiceHealth("QwenModel", "degraded", "Empty model response")
          [] OTHER -> ServiceHealth("QwenModel", "unhealthy", "str(e)")]

\* the thresholds of _determine_overall_status, in percent
UnhealthyAbove == 95
DegradedAbove == 85

\* psutil's memory and CPU percentages around the thresholds
Percentages ==
    {DegradedAbove, DegradedAbove + 1, UnhealthyAbove, UnhealthyAbove + 1}

\* variant: the thresholds themselves count as exceeded
DetermineOverallStatus_Inclusive(service_healths, memory, cpu) ==
    LET unhealthy_services ==
            {i \in DOMAIN service_healths :
                service_healths[i].status = "unhealthy"}
        degraded_services ==
            {i \in DOMAIN service_healths :
                service_healths[i].status = "degraded"}
    IN  IF unhealthy_services # {} THEN "unhealthy"
        ELSE IF memory >= UnhealthyAbove \/ cpu >= UnhealthyAbove
             THEN "unhealthy"
        ELSE IF \/ memory >= DegradedAbove
                \/ cpu >= DegradedAbove
                \/ degraded_services # {}
             THEN "degraded"
        ELSE "healthy"

\* HealthCheckManager._determine_overall_status
DetermineOverallStatus(service_healths, memory, cpu) ==
    LET unhealthy_services ==
            {i \in DOMAIN service_healths :
                service_healths[i].status = "unhealthy"}
        degraded_services ==
            {i \in DOMAIN service_healths :
                service_healths[i].status = "degraded"}
    IN  IF unhealthy_services # {} THEN "unhealthy"
        ELSE IF memory > UnhealthyAbove \/ cpu > UnhealthyAbove
             THEN "unhealthy"
        ELSE IF \/ memory > DegradedAbove
                \/ cpu > DegradedAbove
                \/ degraded_services # {}
             THEN "degraded"
        ELSE "healthy"

\* no report made yet
NoReport ==
    [status |-> "none", raised |-> FALSE,
     services |-> [newsapi |-> NoCheck, model |-> NoCheck],
     probed |-> [newsapi |-> "none", model |-> "none"],
     memory |-> 0, cpu |-> 0]

\* HealthCheckManager.get_full_health_report: the two checkers are awaited,
\* the metrics sampled, the overall status computed; an exception of a
\* checker would go to the caller
GetFullHealthReport(np, mp, memory, cpu) ==
    LET news_health == NewsCheckHealth(np)
        model_health == ModelCheckHealth(mp)
    IN  IF news_health.raised \/ model_health.raised
        THEN [NoReport EXCEPT !.raised = TRUE,
                              !.probed = [newsapi |-> np, model |-> mp]]
        ELSE [status |-> DetermineOverallStatus(
                            <<news_health.health, model_health.health>>,
                            memory, cpu),
              raised |-> FALSE,
              services |-> [newsapi |-> news_health.health,
                            model |-> model_health.health],
              probed |-> [newsapi |-> np, model |-> mp],
              memory |-> memory, cpu |-> cpu]

\* HealthCheckManager.__init__: _last_checks = {}
NewHealthManager == [last_checks |-> [s \in Services |-> NoCheck]]

\* variant: only the NewsAPI snapshot is written
StoreChecks_NewsOnly(h, news_health, model_health) ==
    [h EXCEPT !.last_checks =
        [@ EXCEPT !["newsapi"] = news_health]]

\* _background_health_checks, lines 302-303
StoreChecks(h, news_health, model_health) ==
    [h EXCEPT !.last_checks =
        [newsapi |-> news_health, model |-> model_health]]

\* HealthCheckManager.get_cached_health
GetCachedHealth(h, service_name) == h.last_checks[service_name]

\* --------------------------------------------------- format_news_context
\* news_api_circuit_breaker = CircuitBreaker(5, 60, Exception), scaled down
NewsFailureThreshold == 2
NewsRecoveryTimeout == 1
NewsBreaker == NewBreaker(NewsFailureThreshold, NewsRecoveryTimeout)

\* @retry_with_backoff(max_attempts=3, exceptions=(RequestException,))
NewsMaxAttempts == 3
NewsRetryOn == {"RequestException"}

\* what NewsAPI can do at one fetch: answer with articles, answer that the
\* rate limit is reached, answer with another error status, or fail at the
\* network level (requests raises a RequestException)
ApiOutcomes == {"articles", "rate_limited", "api_error", "network_error"}

\* the texts format_news_context can return
ArticlesText == "- title (source, date)"
RateLimitText == "[RATE LIMIT] ..."
ApiErrorText == "[ERREUR] NewsAPI ..."
UnavailableText == "[ERREUR] Service ..."

\* those of the texts that begin with "["
Markers == {RateLimitText, ApiErrorText, UnavailableText}

\* variant: only the [ERREUR] texts count as markers
StartsWithBracket_Erreur(r) == r \in {ApiErrorText, UnavailableText}

\* result.startswith("[")
StartsWithBracket(r) == r \in Markers

\* _fetch_news_api: the text returned, or the class of the exception
\* raised; a RequestException is caught at line 253 and a plain Exception
\* raised in its place
FetchNewsApi(o) ==
    CASE o = "articles" -> [raised |-> "none", value |-> ArticlesText]
      [] o = "rate_limited" -> [raised |-> "none", value |-> RateLimitText]
      [] o = "api_error" -> [raised |-> "none", value |-> ApiErrorText]
      [] OTHER -> [raised |-> "Exception", value |-> "none"]

\* the methods HealthCheckManager defines
HealthManagerMethods ==
    {"get_full_health_report", "_determine_overall_status",
     "_get_cache_stats", "start_background_checks",
     "stop_background_checks", "_background_health_checks",
     "get_cached_health"}

\* health_manager.mark_service_success('newsapi'): the class of the
\* exception the call raises, "none" when it returns
MarkServiceSuccess ==
    IF "mark_service_success" \in HealthManagerMethods
    THEN "none" ELSE "AttributeError"

\* format_news_context without its decorator, lines 166-200: one run of the
\* body for query q at time t, with the breaker b, the news cache c, the API
\* doing o if it is reached and health_manager being hmv.  Gives the
\* breaker and the cache afterwards, the class of the exception that leaves
\* the body ("none": it returns result), and what the run did
FormatNewsBody(b, c, q, o, hmv, t) ==
    LET cached_result == GetResult(c, q, t)
        c1 == GetState(c, q, t)
        gated == AfterGate(b, t)
        fetched == FetchNewsApi(o)
        b2 == IF fetched.raised # "none" THEN OnFailure(gated, t)
              ELSE OnSuccess(gated)
        base == [cb |-> b, cache |-> c1, raised |-> "none",
                 result |-> UnavailableText, hit |-> FALSE,
                 entered |-> TRUE, fetches |-> 0, stored |-> FALSE,
                 attempts |-> 1]
    IN  IF cached_result # Miss
        THEN [base EXCEPT !.result = cached_result, !.hit = TRUE,
                          !.entered = FALSE]
        ELSE IF ~Admits(b, t) THEN base
        ELSE IF fetched.raised # "none"
             THEN [base EXCEPT !.cb = b2, !.fetches = 1]
        ELSE IF hmv # "None" /\ MarkServiceSuccess # "none"
             THEN [base EXCEPT !.cb = b2, !.fetches = 1]
        ELSE IF StartsWithBracket(fetched.value)
             THEN [base EXCEPT !.cb = b2, !.fetches = 1,
                               !.result = fetched.value]
        ELSE [base EXCEPT !.cb = b2, !.fetches = 1,
                          !.result = fetched.value, !.stored = TRUE,
                          !.cache = SetState(c1, q, fetched.value, NewsTtl, t)]

\* format_news_context as decorated: the retry wrapper runs the body again
\* when it raises one of NewsRetryOn and attempts are left; api[i] is what
\* the API does if attempt i reaches it
RECURSIVE RetryFormat(_, _, _, _, _, _, _)
RetryFormat(b, c, q, api, hmv, t, attempt) ==
    LET r == FormatNewsBody(b, c, q, api[attempt + 1], hmv, t)
    IN  IF r.raised \in NewsRetryOn /\ attempt < NewsMaxAttempts - 1
        THEN LET rest == RetryFormat(r.cb, r.cache, q, api, hmv, t, attempt + 1)
             IN  [rest EXCEPT !.fetches = @ + r.fetches,
                              !.attempts = @ + 1]
        ELSE r

\* no call of format_news_context made yet
NoNewsCall ==
    [query |-> "none", api |-> <<>>, result |-> "none", raised |-> "none",
     hit |-> FALSE, entered |-> FALSE, fetches |-> 0, attempts |-> 0,
     stored |-> FALSE, n |-> 0]

\* ------------------------------------------------- components not in use
\* the background tasks, the health manager and format_news_context, not
\* in use
ServicesAtRest ==
    /\ bg = [m \in Managers |-> NewBackground]
    /\ hm = NewHealthManager
    /\ hlast = NoReport
    /\ health_manager = "loaded"
    /\ nlast = NoNewsCall

\* the module's breaker instance, not in use
BreakerAtRest ==
    /\ cb = NewBreaker(5, 60)
    /\ pc = [c \in Callers |-> "idle"]
    /\ seen = [c \in Callers |-> "none"]
    /\ invoked = [c \in Callers |-> 0]
    /\ opRes = [c \in Callers |-> "none"]
    /\ out = [c \in Callers |-> "none"]
    /\ consec = 0
    /\ probes = 0

\* the module's limiter instance and callers, not in use
LimiterAtRest ==
    /\ rl = NewLimiter(100, 3600)
    /\ lim = [c \in Callers |-> [pc |-> "idle", out |-> "none", invoked |-> 0]]
    /\ admitted = <<>>

\* the module's cache manager, not in use
ManagerAtRest ==
    /\ mgr = NewManager
    /\ mlast = NoMgrOp

\* the module's cache, not in use
CacheAtRest ==
    /\ cache = NewCache(1000, 3600)
    /\ clast = [op |-> "none", key |-> "none", result |-> "none"]
    /\ setLog = [k \in Keys |-> [at |-> NoTime, ttl |-> NoTtl, value |-> "none"]]
    /\ cops = 0
    /\ cstat = NoStats
    /\ klog = <<>>
    /\ thr = [c \in Callers |-> IdleThread]
    /\ sw = IdleSweep
    /\ chist = [ops |-> 0, hits_done |-> 0, full_sets |-> 0]
    /\ ManagerAtRest

\* ------------------------------------------------------------------ Init
Init ==
    /\ \E th \in 1..MaxThreshold, to \in 1..MaxTimeout : cb = NewBreaker(th, to)
    /\ now = 0
    /\ rt = NewRetry(3, 1, 60, 2)
    /\ LimiterAtRest
    /\ ServicesAtRest
    /\ CacheAtRest
    /\ pc = [c \in Callers |-> "idle"]
    /\ seen = [c \in Callers |-> "none"]
    /\ invoked = [c \in Callers |-> 0]
    /\ opRes = [c \in Callers |-> "none"]
    /\ out = [c \in Callers |-> "none"]
    /\ consec = 0
    /\ probes = 0

\* --------------------------------------------------------------- actions
\* the clock advances
Tick ==
    /\ now < MaxTime
    /\ now' = now + 1
    /\ UNCHANGED <<cb, pc, seen, invoked, opRes, out, consec, probes>>
    /\ UNCHANGED <<retryVars, limiterVars, cacheVars, svcVars>>

\* CircuitBreaker.__call__.wrapper: caller c calls the protected function
Call(c) ==
    /\ pc[c] = "idle"
    /\ pc' = [pc EXCEPT ![c] = "called"]
    /\ seen' = [seen EXCEPT ![c] = "none"]
    /\ invoked' = [invoked EXCEPT ![c] = 0]
    /\ opRes' = [opRes EXCEPT ![c] = "none"]
    /\ out' = [out EXCEPT ![c] = "none"]
    /\ UNCHANGED <<cb, now, consec, probes>>
    /\ UNCHANGED <<retryVars, limiterVars, cacheVars, svcVars>>

\* CircuitBreaker._call, lines 45-53: reject, or (after Open -> HalfOpen
\* when the timeout has elapsed) enter func
Gate(c) ==
    /\ pc[c] = "called"
    /\ seen' = [seen EXCEPT ![c] = cb.state]
    /\ IF Admits(cb, now)
       THEN /\ cb' = AfterGate(cb, now)
            /\ pc' = [pc EXCEPT ![c] = "running"]
            /\ invoked' = [invoked EXCEPT ![c] = @ + 1]
            /\ probes' = IF cb.state = "open" THEN 1
                         ELSE IF cb.state = "half_open"
                              THEN Min(probes + 1, MaxProbes)
                              ELSE probes
            /\ UNCHANGED out
       ELSE /\ pc' = [pc EXCEPT ![c] = "idle"]
            /\ out' = [out EXCEPT ![c] = CircuitOpenExc]
            /\ UNCHANGED <<cb, invoked, probes>>
    /\ UNCHANGED <<now, opRes, consec>>
    /\ UNCHANGED <<retryVars, limiterVars, cacheVars, svcVars>>

\* CircuitBreaker._call, lines 53-58: func ends with r, then _on_success or
\* _on_failure, then the return or the raise
Complete(c) ==
    /\ pc[c] = "running"
    /\ \E r \in OpResults :
        /\ opRes' = [opRes EXCEPT ![c] = r]
        /\ cb' = AfterCall(cb, r, now)
        /\ out' = [out EXCEPT ![c] = CallResult(r)]
        /\ consec' = IF r \in Values THEN 0
                     ELSE IF r \in ExpectedExc THEN consec + 1
                     ELSE consec
    /\ probes' = IF cb'.state = "half_open" THEN probes ELSE 0
    /\ pc' = [pc EXCEPT ![c] = "idle"]
    /\ UNCHANGED <<now, seen, invoked>>
    /\ UNCHANGED <<retryVars, limiterVars, cacheVars, svcVars>>

OthersIdle(c) == \A d \in Callers \ {c} : pc[d] = "idle"

\* non-overlapping callers: a call starts only when no other call is executing
SeqCall(c) == OthersIdle(c) /\ Call(c)

Next ==
    \/ Tick
    \/ \E c \in Callers : SeqCall(c)
    \/ \E c \in Callers : Gate(c)
    \/ \E c \in Callers : Complete(c)

Spec == Init /\ [][Next]_vars

\* overlapping callers (threads sharing one breaker)
NextConc ==
    \/ Tick
    \/ \E c \in Callers : Call(c)
    \/ \E c \in Callers : Gate(c)
    \/ \E c \in Callers : Complete(c)

SpecConc == Init /\ [][NextConc]_vars

TypeOK ==
    /\ cb.state \in {"closed", "open", "half_open"}
    /\ cb.failure_count \in Nat
    /\ cb.last_failure_time \in {NoTime} \cup 0..MaxTime
    /\ now \in 0..MaxTime
    /\ pc \in [Callers -> {"idle", "called", "running"}]
    /\ invoked \in [Callers -> 0..1]

\* ------------------------------------------------------- retry: actions
\* wrapper(*args, **kwargs) is called
RetryCall ==
    /\ rt.pc = "idle"
    /\ rt' = [rt EXCEPT !.pc = IF 0 < rt.max_attempts THEN "attempt" ELSE "done",
                        !.attempt = 0,
                        !.last_exception = "none"]
    /\ UNCHANGED <<now, breakerVars, limiterVars, cacheVars, svcVars>>

\* lines 109-130: one pass of the loop body, func ending with res
RetryAttempt ==
    /\ rt.pc = "attempt"
    /\ \E res \in AttemptResults :
        LET o == AttemptOutcome(rt, res)
            logged == [rt EXCEPT !.log = Append(@, res)]
        IN  rt' = CASE o = "return" ->
                        [logged EXCEPT !.pc = "done", !.result = res]
                    [] o = "propagate" ->
                        [logged EXCEPT !.pc = "done", !.result = res]
                    [] o = "raise" ->
                        [logged EXCEPT !.pc = "done",
                                       !.last_exception = res,
                                       !.result = RaisedOnLast(rt, res)]
                    [] OTHER ->
                        [logged EXCEPT !.pc = "sleep",
                                       !.last_exception =
                                           IF res \in Values THEN @ ELSE res,
                                       !.delay = Delay(rt, rt.attempt)]
    /\ UNCHANGED <<now, breakerVars, limiterVars, cacheVars, svcVars>>

\* line 132 and the loop header: time.sleep(delay), then the next attempt, or
\* line 135 when the range is exhausted
RetrySleep ==
    /\ rt.pc = "sleep"
    /\ rt' = [rt EXCEPT !.sleeps = Append(@, rt.delay),
                        !.attempt = @ + 1,
                        !.pc = IF rt.attempt + 1 < rt.max_attempts
                               THEN "attempt" ELSE "done",
                        !.result = IF rt.attempt + 1 < rt.max_attempts
                                   THEN @ ELSE rt.last_exception]
    /\ UNCHANGED <<now, breakerVars, limiterVars, cacheVars, svcVars>>

InitRetry ==
    /\ \E ma \in 1..MaxAttempts, bd \in 1..MaxBaseDelay,
          md \in 1..MaxDelayCap, eb \in 1..MaxExpBase :
            rt = NewRetry(ma, bd, md, eb)
    /\ BreakerAtRest
    /\ now = 0
    /\ LimiterAtRest
    /\ ServicesAtRest
    /\ CacheAtRest

NextRetry ==
    \/ RetryCall
    \/ RetryAttempt
    \/ RetrySleep

SpecRetry == InitRetry /\ [][NextRetry]_vars

\* func returns or raises, and time.sleep returns
SpecRetryFair ==
    SpecRetry /\ WF_vars(RetryAttempt) /\ WF_vars(RetrySleep)

\* ----------------------------------------------------- limiter: actions
\* RateLimiter.__call__.wrapper is called by caller c
LimCall(c) ==
    /\ lim[c].pc = "idle"
    /\ lim' = [lim EXCEPT ![c] = [pc |-> "called", out |-> "none", invoked |-> 0]]
    /\ UNCHANGED <<now, rl, admitted, breakerVars, retryVars, cacheVars, svcVars>>

\* wrapper, lines 157-160: _can_make_call, and the raise when it is false
LimCheck(c) ==
    /\ lim[c].pc = "called"
    /\ LET pruned == [rl EXCEPT !.calls = Prune(@, now, rl.time_window)]
       IN  /\ rl' = pruned
           /\ lim' = IF HasQuota(pruned)
                     THEN [lim EXCEPT ![c].pc = "passed"]
                     ELSE [lim EXCEPT ![c].pc = "idle", ![c].out = RateLimitExc]
    /\ UNCHANGED <<now, admitted, breakerVars, retryVars, cacheVars, svcVars>>

\* wrapper, lines 162-163: _register_call, then func, ending with r
LimRegister(c) ==
    /\ lim[c].pc = "passed"
    /\ rl' = Register(rl, now)
    /\ admitted' = Append(admitted, now)
    /\ \E r \in LimResults :
        lim' = [lim EXCEPT ![c].pc = "idle", ![c].out = r, ![c].invoked = @ + 1]
    /\ UNCHANGED <<now, breakerVars, retryVars, cacheVars, svcVars>>

\* the clock advances while the limiter is in use
LimTick ==
    /\ now < MaxLimTime
    /\ now' = now + 1
    /\ UNCHANGED <<breakerVars, retryVars, limiterVars, cacheVars, svcVars>>

InitLimiter ==
    /\ \E mc \in 1..MaxCalls, w \in 1..MaxWindow : rl = NewLimiter(mc, w)
    /\ lim = [c \in Callers |-> [pc |-> "idle", out |-> "none", invoked |-> 0]]
    /\ admitted = <<>>
    /\ now = 0
    /\ rt = NewRetry(3, 1, 60, 2)
    /\ BreakerAtRest
    /\ CacheAtRest
    /\ ServicesAtRest

LimOthersIdle(c) == \A d \in Callers \ {c} : lim[d].pc = "idle"

\* non-overlapping callers of the limiter
SeqLimCall(c) == LimOthersIdle(c) /\ LimCall(c)

NextLimiter ==
    \/ LimTick
    \/ \E c \in Callers : SeqLimCall(c)
    \/ \E c \in Callers : LimCheck(c)
    \/ \E c \in Callers : LimRegister(c)

SpecLimiter == InitLimiter /\ [][NextLimiter]_vars

\* overlapping callers (threads sharing one limiter)
NextLimiterConc ==
    \/ LimTick
    \/ \E c \in Callers : LimCall(c)
    \/ \E c \in Callers : LimCheck(c)
    \/ \E c \in Callers : LimRegister(c)

SpecLimiterConc == InitLimiter /\ [][NextLimiterConc]_vars

\* ------------------------------------------------------- cache: actions
NoSet == [at |-> NoTime, ttl |-> NoTtl, value |-> "none"]

\* InMemoryCache.get(k)
CacheGet(k) ==
    /\ cops' = cops + 1
    /\ cache' = GetState(cache, k, now)
    /\ clast' = [op |-> "get", key |-> k, result |-> GetResult(cache, k, now)]
    /\ cstat' = NoStats
    /\ UNCHANGED <<now, setLog, klog, thr, sw, chist, mgr, mlast,
                   breakerVars, retryVars, limiterVars, svcVars>>

\* InMemoryCache.set(k, v, ttl)
CacheSet(k, v, ttlArg) ==
    /\ cops' = cops + 1
    /\ cache' = SetState(cache, k, v, ttlArg, now)
    /\ clast' = [op |-> "set", key |-> k, result |-> "none"]
    /\ cstat' = NoStats
    /\ setLog' = [x \in Keys |->
                    IF x = k THEN [at |-> now, ttl |-> ttlArg, value |-> v]
                    ELSE IF x \in StoredKeys(cache) /\ x \notin StoredKeys(cache')
                    THEN NoSet
                    ELSE setLog[x]]
    /\ UNCHANGED <<now, klog, thr, sw, chist, mgr, mlast,
                   breakerVars, retryVars, limiterVars, svcVars>>

\* InMemoryCache.clear()
CacheClear ==
    /\ cops' = cops + 1
    /\ cache' = ClearState(cache)
    /\ clast' = [op |-> "clear", key |-> "none", result |-> "none"]
    /\ cstat' = NoStats
    /\ setLog' = [x \in Keys |-> NoSet]
    /\ UNCHANGED <<now, klog, thr, sw, chist, mgr, mlast,
                   breakerVars, retryVars, limiterVars, svcVars>>

\* CacheManager._cleanup_expired_entries(cache): one sweep of the cache
CacheSweep ==
    /\ cops' = cops + 1
    /\ cache' = CleanupExpired(cache, now)
    /\ clast' = [op |-> "sweep", key |-> "none", result |-> "none"]
    /\ cstat' = NoStats
    /\ UNCHANGED <<now, setLog, klog, thr, sw, chist, mgr, mlast,
                   breakerVars, retryVars, limiterVars, svcVars>>

\* InMemoryCache.get_stats()
CacheStats ==
    /\ cops' = cops + 1
    /\ cstat' = GetStats(cache)
    /\ clast' = [op |-> "stats", key |-> "none", result |-> "none"]
    /\ UNCHANGED <<now, cache, setLog, klog, thr, sw, chist, mgr, mlast,
                   breakerVars, retryVars, limiterVars, svcVars>>

\* the clock advances while the cache is in use
CacheTick ==
    /\ now < MaxCacheTime
    /\ now' = now + 1
    /\ UNCHANGED <<breakerVars, retryVars, limiterVars, cacheVars, svcVars>>

InitCache ==
    /\ \E cfg \in CacheConfigs : cache = NewCache(cfg.max_size, cfg.default_ttl)
    /\ clast = [op |-> "none", key |-> "none", result |-> "none"]
    /\ setLog = [k \in Keys |-> NoSet]
    /\ cops = 0
    /\ cstat = NoStats
    /\ klog = <<>>
    /\ thr = [c \in Callers |-> IdleThread]
    /\ sw = IdleSweep
    /\ chist = [ops |-> 0, hits_done |-> 0, full_sets |-> 0]
    /\ ManagerAtRest
    /\ now = 0
    /\ rt = NewRetry(3, 1, 60, 2)
    /\ BreakerAtRest
    /\ LimiterAtRest
    /\ ServicesAtRest

NextCache ==
    \/ CacheTick
    \/ /\ cops < MaxCacheOps
       /\ \/ \E k \in Keys : CacheGet(k)
          \/ \E k \in Keys, v \in Values, ttlArg \in TtlArgs :
                CacheSet(k, v, ttlArg)
          \/ CacheClear
          \/ CacheSweep
          \/ CacheStats

SpecCache == InitCache /\ [][NextCache]_vars

\* longer runs of the same operations, for the capacity and the counters:
\* one value, and set called without a ttl or with ttl = 1
StoreValues == {"v1"}
StoreTtlArgs == {NoTtl, 1}

NextStore ==
    \/ CacheTick
    \/ /\ cops < MaxStoreOps
       /\ \/ \E k \in Keys : CacheGet(k)
          \/ \E k \in Keys, v \in StoreValues, ttlArg \in StoreTtlArgs :
                CacheSet(k, v, ttlArg)
          \/ CacheClear
          \/ CacheSweep
          \/ CacheStats

SpecStore == InitCache /\ [][NextStore]_vars

\* -------------------------------------------- cache: keys as passed
\* InMemoryCache.get(key), key as the caller passes it
KeyedGet(key) ==
    /\ Len(klog) < MaxKeyOps
    /\ LET mk == MakeKey(key)
       IN  IF mk.raised
           THEN /\ klog' = Append(klog, [op |-> "get", key |-> key,
                                          value |-> "none", cache_key |-> "none",
                                          result |-> mk.key])
                /\ UNCHANGED cache
           ELSE /\ klog' = Append(klog, [op |-> "get", key |-> key,
                                          value |-> "none", cache_key |-> mk.key,
                                          result |-> GetResult(cache, mk.key, now)])
                /\ cache' = GetState(cache, mk.key, now)
    /\ UNCHANGED <<now, clast, setLog, cops, cstat, thr, sw, chist, mgr, mlast,
                   breakerVars, retryVars, limiterVars, svcVars>>

\* InMemoryCache.set(key, value), key as the caller passes it
KeyedSet(key, v) ==
    /\ Len(klog) < MaxKeyOps
    /\ LET mk == MakeKey(key)
       IN  IF mk.raised
           THEN /\ klog' = Append(klog, [op |-> "set", key |-> key,
                                          value |-> v, cache_key |-> "none",
                                          result |-> mk.key])
                /\ UNCHANGED cache
           ELSE /\ klog' = Append(klog, [op |-> "set", key |-> key,
                                          value |-> v, cache_key |-> mk.key,
                                          result |-> "none"])
                /\ cache' = SetState(cache, mk.key, v, NoTtl, now)
    /\ UNCHANGED <<now, clast, setLog, cops, cstat, thr, sw, chist, mgr, mlast,
                   breakerVars, retryVars, limiterVars, svcVars>>

InitKeys ==
    /\ \E cfg \in CacheConfigs : cache = NewCache(cfg.max_size, cfg.default_ttl)
    /\ clast = [op |-> "none", key |-> "none", result |-> "none"]
    /\ setLog = [k \in Keys |-> NoSet]
    /\ cops = 0
    /\ cstat = NoStats
    /\ klog = <<>>
    /\ thr = [c \in Callers |-> IdleThread]
    /\ sw = IdleSweep
    /\ chist = [ops |-> 0, hits_done |-> 0, full_sets |-> 0]
    /\ ManagerAtRest
    /\ now = 0
    /\ rt = NewRetry(3, 1, 60, 2)
    /\ BreakerAtRest
    /\ LimiterAtRest
    /\ ServicesAtRest

NextKeys ==
    \/ \E key \in RawKeys : KeyedGet(key)
    \/ \E key \in RawKeys, v \in Values : KeyedSet(key, v)

SpecKeys == InitKeys /\ [][NextKeys]_vars

\* --------------------------------- cache: callers in threads, the sweep
\* what the steps of get, set and the sweep leave alone
restVars == <<clast, setLog, cops, cstat, klog, mgr, mlast,
              breakerVars, retryVars, limiterVars, svcVars>>

\* a caller enters get(k)
ConcGet(c, k) ==
    /\ thr[c].pc = "idle"
    /\ chist.ops < MaxConcOps
    /\ chist' = [chist EXCEPT !.ops = @ + 1]
    /\ thr' = [thr EXCEPT ![c] = [IdleThread EXCEPT !.pc = "g_in",
                                     !.op = "get", !.key = k]]
    /\ UNCHANGED <<now, cache, sw, restVars>>

\* get, line 61: cache_key not in self._cache
GetIn(c) ==
    /\ thr[c].pc = "g_in"
    /\ thr' = [thr EXCEPT ![c] =
                 IF thr[c].key \notin StoredKeys(cache)
                 THEN [@ EXCEPT !.pc = "cnt_read", !.counter = "misses"]
                 ELSE [@ EXCEPT !.pc = "g_fetch"]]
    /\ UNCHANGED <<now, cache, sw, chist, restVars>>

\* get, line 65: entry = self._cache[cache_key]
GetFetch(c) ==
    /\ thr[c].pc = "g_fetch"
    /\ thr' = [thr EXCEPT ![c] =
                 IF thr[c].key \notin StoredKeys(cache)
                 THEN [@ EXCEPT !.pc = "idle", !.out = KeyErrorExc]
                 ELSE [@ EXCEPT !.pc = "g_expired", !.attached = TRUE,
                                !.ent = EntryOf(cache, thr[c].key)]]
    /\ UNCHANGED <<now, cache, sw, chist, restVars>>

\* get, line 67: entry.is_expired
GetExpired(c) ==
    /\ thr[c].pc = "g_expired"
    /\ thr' = [thr EXCEPT ![c] =
                 IF IsExpired(thr[c].ent, now)
                 THEN [@ EXCEPT !.pc = "g_del"]
                 ELSE [@ EXCEPT !.pc = "h_read"]]
    /\ UNCHANGED <<now, cache, sw, chist, restVars>>

\* get, line 68: del self._cache[cache_key]
GetDel(c) ==
    /\ thr[c].pc = "g_del"
    /\ IF thr[c].key \notin StoredKeys(cache)
       THEN /\ thr' = [thr EXCEPT ![c].pc = "idle", ![c].out = KeyErrorExc]
            /\ UNCHANGED cache
       ELSE /\ cache' = [cache EXCEPT
                           !.entries = RemoveAt(@, IndexOf(@, thr[c].key))]
            /\ thr' = [Detach(thr, thr[c].key) EXCEPT
                           ![c].pc = "cnt_read", ![c].counter = "misses"]
    /\ UNCHANGED <<now, sw, chist, restVars>>

\* increment_hits, line 30: hit_count is read
HitRead(c) ==
    /\ thr[c].pc = "h_read"
    /\ thr' = [thr EXCEPT ![c].pc = "h_write",
                           ![c].tmp = IF thr[c].attached
                                      THEN HitCountOf(cache, thr[c].key)
                                      ELSE thr[c].ent.hit_count]
    /\ UNCHANGED <<now, cache, sw, chist, restVars>>

\* increment_hits, line 30: hit_count is written, on the object fetched
HitWrite(c) ==
    /\ thr[c].pc = "h_write"
    /\ IF thr[c].attached
       THEN cache' = [cache EXCEPT
                !.entries[IndexOf(cache.entries, thr[c].key)].hit_count =
                    thr[c].tmp + 1]
       ELSE UNCHANGED cache
    /\ thr' = [thr EXCEPT ![c].pc = "cnt_read", ![c].counter = "hits",
                           ![c].ent.hit_count = thr[c].tmp + 1]
    /\ UNCHANGED <<now, sw, chist, restVars>>

\* self._stats[counter] += 1: the counter is read
CounterRead(c) ==
    /\ thr[c].pc = "cnt_read"
    /\ thr' = [thr EXCEPT ![c].pc = "cnt_write",
                           ![c].tmp = cache.stats[thr[c].counter]]
    /\ UNCHANGED <<now, cache, sw, chist, restVars>>

\* self._stats[counter] += 1: the counter is written; get returns after
\* hits and misses, set goes on after evictions
CounterWrite(c) ==
    /\ thr[c].pc = "cnt_write"
    /\ cache' = [cache EXCEPT !.stats[thr[c].counter] = thr[c].tmp + 1]
    /\ thr' = [thr EXCEPT ![c] =
                 IF thr[c].counter = "hits"
                 THEN [@ EXCEPT !.pc = "idle", !.out = thr[c].ent.value]
                 ELSE IF thr[c].counter = "misses"
                 THEN [@ EXCEPT !.pc = "idle", !.out = Miss]
                 ELSE [@ EXCEPT !.pc = "s_insert"]]
    /\ chist' = IF thr[c].counter = "hits"
                THEN [chist EXCEPT !.hits_done = @ + 1]
                ELSE chist
    /\ UNCHANGED <<now, sw, restVars>>

\* a caller enters set(k, v)
ConcSet(c, k, v) ==
    /\ thr[c].pc = "idle"
    /\ chist.ops < MaxConcOps
    /\ chist' = [chist EXCEPT !.ops = @ + 1]
    /\ thr' = [thr EXCEPT ![c] = [IdleThread EXCEPT !.pc = "s_check",
                                     !.op = "set", !.key = k, !.value = v]]
    /\ UNCHANGED <<now, cache, sw, restVars>>

\* set, line 82: the cache is full and the key is new
SetCheck(c) ==
    /\ thr[c].pc = "s_check"
    /\ LET full == /\ Len(cache.entries) >= cache.max_size
                    /\ thr[c].key \notin StoredKeys(cache)
       IN  /\ thr' = [thr EXCEPT ![c].pc = IF full THEN "e_pick" ELSE "s_insert"]
           /\ chist' = IF full THEN [chist EXCEPT !.full_sets = @ + 1]
                       ELSE chist
    /\ UNCHANGED <<now, cache, sw, restVars>>

\* _evict_lru, lines 93-100: nothing to evict, or the least used key
EvictPick(c) ==
    /\ thr[c].pc = "e_pick"
    /\ thr' = [thr EXCEPT ![c] =
                 IF cache.entries = <<>>
                 THEN [@ EXCEPT !.pc = "s_insert"]
                 ELSE [@ EXCEPT !.pc = "e_del",
                         !.lru = cache.entries[LruIndex(cache.entries)].key]]
    /\ UNCHANGED <<now, cache, sw, chist, restVars>>

\* _evict_lru, line 102: del self._cache[lru_key]
EvictDel(c) ==
    /\ thr[c].pc = "e_del"
    /\ IF thr[c].lru \notin StoredKeys(cache)
       THEN /\ thr' = [thr EXCEPT ![c].pc = "idle", ![c].out = KeyErrorExc]
            /\ UNCHANGED cache
       ELSE /\ cache' = [cache EXCEPT
                           !.entries = RemoveAt(@, IndexOf(@, thr[c].lru))]
            /\ thr' = [Detach(thr, thr[c].lru) EXCEPT
                           ![c].pc = "cnt_read", ![c].counter = "evictions"]
    /\ UNCHANGED <<now, sw, chist, restVars>>

\* set, lines 85-89: the entry is stored
SetInsert(c) ==
    /\ thr[c].pc = "s_insert"
    /\ cache' = StoreEntry(cache, thr[c].key, thr[c].value, NoTtl, now)
    /\ thr' = [Detach(thr, thr[c].key) EXCEPT ![c].pc = "idle",
                                               ![c].out = "done"]
    /\ UNCHANGED <<now, sw, chist, restVars>>

\* _cleanup_expired_entries, lines 214-217: the expired keys are listed
SweepScan ==
    /\ sw.pc = "idle"
    /\ chist.ops < MaxConcOps
    /\ chist' = [chist EXCEPT !.ops = @ + 1]
    /\ LET expired == SelectSeq(cache.entries, LAMBDA e : IsExpired(e, now))
           keys == [i \in 1..Len(expired) |-> expired[i].key]
       IN  sw' = [pc |-> IF keys = <<>> THEN "idle" ELSE "del",
                  keys |-> keys, out |-> "none"]
    /\ UNCHANGED <<now, cache, thr, restVars>>

\* _cleanup_expired_entries, line 220: del cache._cache[key]; a KeyError
\* ends the sweep (it is logged by _periodic_cleanup, line 210)
SweepDel ==
    /\ sw.pc = "del"
    /\ LET k == Head(sw.keys)
       IN  IF k \notin StoredKeys(cache)
           THEN /\ sw' = [pc |-> "idle", keys |-> <<>>, out |-> KeyErrorExc]
                /\ UNCHANGED <<cache, thr>>
           ELSE /\ cache' = [cache EXCEPT
                               !.entries = RemoveAt(@, IndexOf(@, k))]
                /\ thr' = Detach(thr, k)
                /\ sw' = [sw EXCEPT !.keys = Tail(@),
                            !.pc = IF Len(sw.keys) = 1 THEN "idle" ELSE "del"]
    /\ UNCHANGED <<now, chist, restVars>>

NextCacheConc ==
    \/ CacheTick
    \/ \E c \in Callers :
          \/ \E k \in Keys : ConcGet(c, k)
          \/ GetIn(c) \/ GetFetch(c) \/ GetExpired(c) \/ GetDel(c)
          \/ HitRead(c) \/ HitWrite(c)
          \/ CounterRead(c) \/ CounterWrite(c)
          \/ \E k \in Keys, v \in Values : ConcSet(c, k, v)
          \/ SetCheck(c) \/ EvictPick(c) \/ EvictDel(c) \/ SetInsert(c)
    \/ SweepScan
    \/ SweepDel

SpecCacheConc == InitCache /\ [][NextCacheConc]_vars

\* ------------------------------------------------ CacheManager: actions
\* what the operations made through the manager leave alone
mgrRest == <<cache, clast, setLog, cops, cstat, klog, thr, sw, chist,
             breakerVars, retryVars, limiterVars, svcVars>>

\* NewsCache.get_news
GetNews(k) ==
    /\ mlast.n < MaxMgrOps
    /\ mgr' = [mgr EXCEPT !.news_cache = GetState(@, k, now)]
    /\ mlast' = [NoMgrOp EXCEPT !.op = "get_news", !.key = k,
                     !.result = GetResult(mgr.news_cache, k, now),
                     !.n = mlast.n + 1]
    /\ UNCHANGED <<now, mgrRest>>

\* NewsCache.set_news: ttl = 900
SetNews(k, v) ==
    /\ mlast.n < MaxMgrOps
    /\ mgr' = [mgr EXCEPT !.news_cache = SetState(@, k, v, NewsTtl, now)]
    /\ mlast' = [NoMgrOp EXCEPT !.op = "set_news", !.key = k,
                     !.n = mlast.n + 1]
    /\ UNCHANGED <<now, mgrRest>>

\* ModelCache.get_response
GetResponse(k) ==
    /\ mlast.n < MaxMgrOps
    /\ mgr' = [mgr EXCEPT !.model_cache = GetState(@, k, now)]
    /\ mlast' = [NoMgrOp EXCEPT !.op = "get_response", !.key = k,
                     !.result = GetResult(mgr.model_cache, k, now),
                     !.n = mlast.n + 1]
    /\ UNCHANGED <<now, mgrRest>>

\* ModelCache.set_response: no ttl passed
SetResponse(k, v) ==
    /\ mlast.n < MaxMgrOps
    /\ mgr' = [mgr EXCEPT !.model_cache = SetState(@, k, v, NoTtl, now)]
    /\ mlast' = [NoMgrOp EXCEPT !.op = "set_response", !.key = k,
                     !.n = mlast.n + 1]
    /\ UNCHANGED <<now, mgrRest>>

\* _periodic_cleanup, lines 202-203: one sweep
PeriodicCleanup ==
    /\ mlast.n < MaxMgrOps
    /\ mgr' = SweepAll(mgr, now)
    /\ mlast' = [NoMgrOp EXCEPT !.op = "sweep", !.n = mlast.n + 1,
                     !.removed =
                        [news_cache |-> Len(mgr.news_cache.entries)
                                          - Len(mgr'.news_cache.entries),
                         model_cache |-> Len(mgr.model_cache.entries)
                                          - Len(mgr'.model_cache.entries)]]
    /\ UNCHANGED <<now, mgrRest>>

\* the clock advances while the manager is in use
MgrTick ==
    /\ now < MaxMgrTime
    /\ now' = now + 1
    /\ UNCHANGED <<mgr, mlast, mgrRest>>

InitManager ==
    /\ ManagerAtRest
    /\ CacheAtRest
    /\ now = 0
    /\ rt = NewRetry(3, 1, 60, 2)
    /\ BreakerAtRest
    /\ LimiterAtRest
    /\ ServicesAtRest

NextManager ==
    \/ MgrTick
    \/ \E k \in MgrKeys : GetNews(k)
    \/ \E k \in MgrKeys, v \in Values : SetNews(k, v)
    \/ \E k \in MgrKeys : GetResponse(k)
    \/ \E k \in MgrKeys, v \in Values : SetResponse(k, v)
    \/ PeriodicCleanup

SpecManager == InitManager /\ [][NextManager]_vars

\* ------------------------------------------- background tasks: actions
\* what the background tasks and the health manager leave alone
taskRest == <<now, breakerVars, retryVars, limiterVars, cache, clast,
              setLog, cops, cstat, klog, thr, sw, chist, mlast,
              health_manager, nlast>>

\* start_cleanup_task, start_background_checks.  The calls on a manager
\* are made one after the other (lifespan): none begins while a stop is
\* waiting for its task
StartBackground(m) ==
    /\ ~bg[m].stopping
    /\ Len(bg[m].tasks) < MaxTasks
    /\ bg' = [bg EXCEPT ![m] = StartTask(@)]
    /\ UNCHANGED <<mgr, hm, hlast, taskRest>>

\* stop_cleanup_task, stop_background_checks, lines 187-188 and 281-282:
\* the test of the handle and cancel(); without a task the call is over
StopBegin(m) ==
    /\ ~bg[m].stopping
    /\ bg' = [bg EXCEPT ![m] = CancelTask(@)]
    /\ UNCHANGED <<mgr, hm, hlast, taskRest>>

\* stop_cleanup_task, stop_background_checks, lines 189-193 and 283-287:
\* `await task` gives control back when the task has finished
StopEnd(m) ==
    /\ bg[m].stopping
    /\ bg[m].tasks[bg[m].handle].pc = "done"
    /\ bg' = [bg EXCEPT ![m] = ForgetTask(@)]
    /\ UNCHANGED <<mgr, hm, hlast, taskRest>>

\* the event loop runs a new task up to its first await, the sleep
TaskBegin(m, i) ==
    /\ i \in DOMAIN bg[m].tasks
    /\ bg[m].tasks[i].pc = "new"
    /\ ~bg[m].tasks[i].cancel
    /\ bg' = [bg EXCEPT ![m].tasks[i].pc = "sleeping"]
    /\ UNCHANGED <<mgr, hm, hlast, taskRest>>

\* a task that was cancelled gets CancelledError at the await it is at
\* (a task that never ran ends at once): the loop breaks
TaskExit(m, i) ==
    /\ i \in DOMAIN bg[m].tasks
    /\ bg[m].tasks[i].cancel
    /\ bg[m].tasks[i].pc # "done"
    /\ bg' = [bg EXCEPT ![m].tasks[i] = OnCancelled(@)]
    /\ UNCHANGED <<mgr, hm, hlast, taskRest>>

\* _periodic_cleanup, lines 199-210: the sleep ends and both caches are
\* swept, or the sweep raises (fail) and the error is logged
SweepIteration(i, fail) ==
    /\ i \in DOMAIN bg["cache"].tasks
    /\ bg["cache"].tasks[i].pc = "sleeping"
    /\ ~bg["cache"].tasks[i].cancel
    /\ IF fail
       THEN /\ bg["cache"].logged < MaxLogged
            /\ bg' = [bg EXCEPT !["cache"].tasks[i] = OnIterationError(@),
                                !["cache"].logged = @ + 1]
            /\ mgr' = mgr
       ELSE /\ bg["cache"].ticks < MaxTicks
            /\ bg' = [bg EXCEPT !["cache"].ticks = @ + 1]
            /\ mgr' = SweepAll(mgr, now)
    /\ UNCHANGED <<hm, hlast, taskRest>>

\* _background_health_checks, lines 293-299: the sleep ends, the two
\* checks are started and the loop waits for both; or something raises
\* (fail) and the error is logged
PollWake(i, fail) ==
    /\ i \in DOMAIN bg["health"].tasks
    /\ bg["health"].tasks[i].pc = "sleeping"
    /\ ~bg["health"].tasks[i].cancel
    /\ IF fail
       THEN /\ bg["health"].logged < MaxLogged
            /\ bg' = [bg EXCEPT !["health"].tasks[i] = OnIterationError(@),
                                !["health"].logged = @ + 1]
       ELSE /\ bg["health"].ticks < MaxTicks
            /\ bg' = [bg EXCEPT !["health"].tasks[i].pc = "checking"]
    /\ UNCHANGED <<mgr, hm, hlast, taskRest>>

\* _background_health_checks, lines 299-309: gather gives the two results,
\* which are written to _last_checks; a check that raised would make gather
\* raise, and the error would be logged
PollGather(i, np, mp) ==
    /\ i \in DOMAIN bg["health"].tasks
    /\ bg["health"].tasks[i].pc = "checking"
    /\ ~bg["health"].tasks[i].cancel
    /\ LET news_health == NewsCheckHealth(np)
           model_health == ModelCheckHealth(mp)
       IN  IF news_health.raised \/ model_health.raised
           THEN /\ bg' = [bg EXCEPT
                            !["health"].tasks[i] = OnIterationError(@),
                            !["health"].logged = Min(@ + 1, MaxLogged)]
                /\ hm' = hm
           ELSE /\ bg' = [bg EXCEPT !["health"].tasks[i].pc = "sleeping",
                                    !["health"].ticks = @ + 1]
                /\ hm' = StoreChecks(hm, news_health.health,
                                     model_health.health)
    /\ UNCHANGED <<mgr, hlast, taskRest>>

\* get_full_health_report
Report(np, mp, memory, cpu) ==
    /\ hlast' = GetFullHealthReport(np, mp, memory, cpu)
    /\ UNCHANGED <<mgr, bg, hm, taskRest>>

InitTasks ==
    /\ ServicesAtRest
    /\ CacheAtRest
    /\ now = 0
    /\ rt = NewRetry(3, 1, 60, 2)
    /\ BreakerAtRest
    /\ LimiterAtRest

\* both managers with their tasks; the probes of the poll succeed
NextTasks ==
    \/ \E m \in Managers : StartBackground(m)
    \/ \E m \in Managers : StopBegin(m)
    \/ \E m \in Managers : StopEnd(m)
    \/ \E m \in Managers, i \in 1..MaxTasks : TaskBegin(m, i)
    \/ \E m \in Managers, i \in 1..MaxTasks : TaskExit(m, i)
    \/ \E i \in 1..MaxTasks, fail \in BOOLEAN : SweepIteration(i, fail)
    \/ \E i \in 1..MaxTasks, fail \in BOOLEAN : PollWake(i, fail)
    \/ \E i \in 1..MaxTasks : PollGather(i, "ok", "ok")

SpecTasks == InitTasks /\ [][NextTasks]_vars

\* the event loop runs every task that is ready: a cancelled task gets its
\* CancelledError
SpecTasksFair ==
    /\ InitTasks
    /\ [][NextTasks]_vars
    /\ \A m \in Managers, i \in 1..MaxTasks : WF_vars(TaskExit(m, i))

\* the health manager with its task and the reports asked of it, the
\* memory and CPU usage being at a level that leaves the status to the
\* checkers
NextHealth ==
    \/ StartBackground("health")
    \/ StopBegin("health")
    \/ StopEnd("health")
    \/ \E i \in 1..MaxTasks : TaskBegin("health", i)
    \/ \E i \in 1..MaxTasks : TaskExit("health", i)
    \/ \E i \in 1..MaxTasks, fail \in BOOLEAN : PollWake(i, fail)
    \/ \E i \in 1..MaxTasks, np \in NewsProbes, mp \in ModelProbes :
          PollGather(i, np, mp)
    \/ \E np \in NewsProbes, mp \in ModelProbes :
          Report(np, mp, DegradedAbove, DegradedAbove)

SpecHealth == InitTasks /\ [][NextHealth]_vars

\* the reports alone, for every probe outcome and every level of memory
\* and CPU usage
NextReport ==
    \E np \in NewsProbes, mp \in ModelProbes,
       memory \in Percentages, cpu \in Percentages :
          Report(np, mp, memory, cpu)

SpecReport == InitTasks /\ [][NextReport]_vars

\* --------------------------------------------- format_news_context: action
\* one call of format_news_context(query): the calls are made one after
\* the other (the handler calls it without awaiting anything)
FormatNewsContext(q, api) ==
    /\ nlast.n < MaxNewsOps
    /\ LET r == RetryFormat(cb, mgr.news_cache, q, api, health_manager, now, 0)
       IN  /\ cb' = r.cb
           /\ mgr' = [mgr EXCEPT !.news_cache = r.cache]
           /\ nlast' = [query |-> q, api |-> SubSeq(api, 1, r.fetches),
                        result |-> r.result, raised |-> r.raised,
                        hit |-> r.hit, entered |-> r.entered,
                        fetches |-> r.fetches, attempts |-> r.attempts,
                        stored |-> r.stored, n |-> nlast.n + 1]
    /\ UNCHANGED <<now, pc, seen, invoked, opRes, out, consec, probes,
                   retryVars, limiterVars, cache, clast, setLog, cops,
                   cstat, klog, thr, sw, chist, mlast, bg, hm, hlast,
                   health_manager>>

\* the clock advances between the calls
NewsTick ==
    /\ now < MaxNewsTime
    /\ now' = now + 1
    /\ UNCHANGED <<breakerVars, retryVars, limiterVars, cacheVars, svcVars>>

\* main.py, lines 55-66 and 106-113: the modules are loaded; health_manager
\* is the manager, or None when it could not be built
InitNews ==
    /\ cb = NewsBreaker
    /\ pc = [c \in Callers |-> "idle"]
    /\ seen = [c \in Callers |-> "none"]
    /\ invoked = [c \in Callers |-> 0]
    /\ opRes = [c \in Callers |-> "none"]
    /\ out = [c \in Callers |-> "none"]
    /\ consec = 0
    /\ probes = 0
    /\ now = 0
    /\ rt = NewRetry(3, 1, 60, 2)
    /\ LimiterAtRest
    /\ CacheAtRest
    /\ bg = [m \in Managers |-> NewBackground]
    /\ hm = NewHealthManager
    /\ hlast = NoReport
    /\ health_manager \in {"loaded", "None"}
    /\ nlast = NoNewsCall

NextNews ==
    \/ NewsTick
    \/ \E q \in MgrKeys, api \in [1..NewsMaxAttempts -> ApiOutcomes] :
          FormatNewsContext(q, api)

SpecNews == InitNews /\ [][NextNews]_vars

\* ---------------------------------------------------------------- steps
\* caller c's call passes line 45-50 in this step
GateStep(c) == pc[c] = "called" /\ pc'[c] # "called"

\* caller c's invocation of func ends in this step
CompleteStep(c) == pc[c] = "running" /\ pc'[c] = "idle"

Elapsed ==
    /\ cb.last_failure_time # NoTime
    /\ now - cb.last_failure_time >= cb.recovery_timeout

NotElapsed ==
    /\ cb.last_failure_time # NoTime
    /\ now - cb.last_failure_time < cb.recovery_timeout

AllIdle == \A c \in Callers : pc[c] = "idle"

\* ---------------------------------------------------------------- claims

\* C1: in every reachable state of a breaker with failureThreshold >= 1,
\* state = Open implies failureCount >= failureThreshold.
C1_OpenImpliesThreshold ==
    cb.state = "open" => cb.failure_count >= cb.failure_threshold

C1_Witness ==
    /\ cb.failure_threshold >= 2
    /\ cb.state = "open"
    /\ cb.failure_count >= cb.failure_threshold
    /\ \E c \in Callers : pc[c] = "idle" /\ out[c] = CircuitOpenExc

\* C2: in a Closed breaker every expected failure raises failureCount by
\* exactly 1; the breaker stays Closed while the new count is below the
\* threshold and becomes Open exactly at the failure that makes the count of
\* consecutive failures reach the threshold, and that call sets
\* lastFailureTime to the current time.
C2_FailureCounting ==
    [][\A c \in Callers :
        (CompleteStep(c) /\ opRes'[c] \in ExpectedExc /\ cb.state = "closed") =>
            /\ cb'.failure_count = cb.failure_count + 1
            /\ cb'.failure_count < cb.failure_threshold => cb'.state = "closed"
            /\ cb'.state = "open" <=> cb'.failure_count = cb.failure_threshold
            /\ cb'.state = "open" => consec' = cb.failure_threshold
            /\ cb'.state \in {"closed", "open"}
            /\ cb'.last_failure_time = now]_vars

C2_Witness ==
    /\ cb.failure_threshold >= 2
    /\ cb.state = "open"
    /\ cb.failure_count = cb.failure_threshold
    /\ cb.last_failure_time = now
    /\ \E c \in Callers :
        pc[c] = "idle" /\ seen[c] = "closed" /\ out[c] \in ExpectedExc

\* C3: a call that reaches an Open breaker before recoveryTimeout has elapsed
\* is rejected with the circuit-open failure, func is not invoked, and state,
\* failureCount and lastFailureTime are unchanged.
C3_RejectWhileOpen ==
    [][\A c \in Callers :
        (GateStep(c) /\ cb.state = "open" /\ NotElapsed) =>
            /\ pc'[c] = "idle"
            /\ out'[c] = CircuitOpenExc
            /\ invoked'[c] = 0
            /\ opRes'[c] = "none"
            /\ cb' = cb]_vars

C3_Witness ==
    /\ cb.state = "open"
    /\ NotElapsed
    /\ \E c \in Callers :
        /\ pc[c] = "idle"
        /\ seen[c] = "open"
        /\ out[c] = CircuitOpenExc
        /\ invoked[c] = 0

\* C4: a call that reaches an Open breaker once recoveryTimeout has elapsed
\* moves it to HalfOpen and is let through: func is invoked exactly once for
\* that call and the call is not rejected.
C4_ProbeAdmitted ==
    [][\A c \in Callers :
        /\ (GateStep(c) /\ cb.state = "open" /\ Elapsed) =>
              /\ cb'.state = "half_open"
              /\ pc'[c] = "running"
              /\ invoked'[c] = 1
              /\ out'[c] = "none"
        /\ (CompleteStep(c) /\ seen[c] = "open") =>
              /\ invoked'[c] = 1
              /\ out'[c] # CircuitOpenExc]_vars

C4_Witness ==
    /\ cb.state = "half_open"
    /\ \E c \in Callers :
        pc[c] = "running" /\ seen[c] = "open" /\ invoked[c] = 1

\* C5: when the probe made in HalfOpen succeeds the breaker ends Closed with
\* failureCount = 0 and the caller gets the value func returned.
C5_ProbeSuccess ==
    [][\A c \in Callers :
        (CompleteStep(c) /\ opRes'[c] \in Values /\ cb.state = "half_open") =>
            /\ cb'.state = "closed"
            /\ cb'.failure_count = 0
            /\ out'[c] = opRes'[c]]_vars

C5_Witness ==
    /\ cb.state = "closed"
    /\ cb.failure_count = 0
    /\ cb.last_failure_time # NoTime
    /\ \E c \in Callers :
        pc[c] = "idle" /\ seen[c] = "open" /\ out[c] \in Values

\* C6 as stated: when the probe made in HalfOpen fails with an expected
\* failure the breaker returns to Open, lastFailureTime is the current time
\* and failureCount is the same as before the probe.
C6_Original ==
    [][\A c \in Callers :
        (CompleteStep(c) /\ opRes'[c] \in ExpectedExc /\ cb.state = "half_open") =>
            /\ cb'.state = "open"
            /\ cb'.last_failure_time = now
            /\ cb'.failure_count = cb.failure_count]_vars

\* C6: when the probe made in HalfOpen fails with an expected failure the
\* breaker returns to Open, lastFailureTime is the current time and
\* failureCount is one more than before the probe.
C6_ProbeFailure ==
    [][\A c \in Callers :
        (CompleteStep(c) /\ opRes'[c] \in ExpectedExc /\ cb.state = "half_open") =>
            /\ cb'.state = "open"
            /\ cb'.last_failure_time = now
            /\ cb'.failure_count = cb.failure_count + 1]_vars

C6_Witness ==
    /\ cb.state = "open"
    /\ cb.failure_count = cb.failure_threshold + 1
    /\ cb.last_failure_time = now
    /\ \E c \in Callers :
        pc[c] = "idle" /\ seen[c] = "open" /\ out[c] \in ExpectedExc

\* C7: while the breaker is Closed every successful call sets failureCount
\* to 0, so a Closed breaker counts the expected failures since the last
\* success and opens only when failureThreshold of them occurred with no
\* successful call between them.
C7_SuccessResets ==
    [][/\ \A c \in Callers :
            (CompleteStep(c) /\ opRes'[c] \in Values /\ cb.state = "closed") =>
                cb'.failure_count = 0 /\ cb'.state = "closed"
       /\ cb'.state = "closed" => cb'.failure_count = consec'
       /\ (cb.state = "closed" /\ cb'.state = "open") =>
                consec' = cb.failure_threshold]_vars

C7_Witness ==
    /\ cb.failure_threshold >= 2
    /\ cb.state = "closed"
    /\ cb.failure_count = 0
    /\ cb.last_failure_time = now
    /\ \E c \in Callers :
        pc[c] = "idle" /\ seen[c] = "closed" /\ out[c] \in Values

\* C8 as stated: with non-overlapping callers exactly one invocation of func
\* takes place between the breaker entering and leaving HalfOpen, and
\* whenever no call is executing the state is Closed or Open, whatever the
\* probe ended with.
C8_SingleProbeSequential ==
    /\ cb.state = "half_open" => probes = 1
    /\ AllIdle => cb.state \in {"closed", "open"}

\* C9 as stated: with overlapping callers at most one invocation of func let
\* through by a breaker that is not Closed is in flight at any time; callers
\* arriving during the probe are rejected.
C9_SingleFlightProbe ==
    Cardinality({c \in Callers :
        pc[c] = "running" /\ seen[c] \in {"open", "half_open"}}) <= 1

\* C10: a failure of func outside the expected_exception category reaches
\* the caller unchanged, changes neither failureCount nor lastFailureTime and
\* does not change the state (so it never opens the breaker).
C10_UnexpectedFailure ==
    [][\A c \in Callers :
        (CompleteStep(c) /\ opRes'[c] \in OtherExc) =>
            /\ out'[c] = opRes'[c]
            /\ cb'.failure_count = cb.failure_count
            /\ cb'.last_failure_time = cb.last_failure_time
            /\ cb'.state = cb.state]_vars

C10_Witness ==
    /\ cb.state = "closed"
    /\ cb.failure_count = cb.failure_threshold - 1
    /\ cb.failure_count >= 1
    /\ \E c \in Callers :
        pc[c] = "idle" /\ seen[c] = "closed" /\ out[c] \in OtherExc

\* the state changes of section 4.2
AllowedTransitions ==
    {<<"closed", "open">>, <<"open", "half_open">>,
     <<"half_open", "closed">>, <<"half_open", "open">>}

\* C11 as stated: in every execution, overlapping callers included, each
\* change of the breaker's state is Closed->Open, Open->HalfOpen,
\* HalfOpen->Closed or HalfOpen->Open; never Open->Closed nor
\* Closed->HalfOpen.
C11_TransitionsOnly ==
    [][cb'.state # cb.state =>
        <<cb.state, cb'.state>> \in AllowedTransitions]_vars

\* C12: one call of the retry wrapper invokes func at least once and at most
\* max_attempts times and always terminates; a successful attempt is the
\* last one, its value is the call's result, and the only sleeps are those
\* that preceded it.
C12_RetryBounded ==
    /\ [](/\ Len(rt.log) <= rt.max_attempts
          /\ rt.pc = "done" => Len(rt.log) >= 1
          /\ \A i \in 1..Len(rt.log) :
                rt.log[i] \in Values =>
                    /\ i = Len(rt.log)
                    /\ rt.pc = "done"
                    /\ rt.result = rt.log[i]
                    /\ Len(rt.sleeps) = i - 1)
    /\ (rt.pc = "attempt" ~> rt.pc = "done")

C12_Witness ==
    /\ rt.pc = "done"
    /\ Len(rt.log) = 3
    /\ rt.log[1] \in RetryableExc
    /\ rt.log[2] \in RetryableExc
    /\ rt.log[3] \in Values
    /\ rt.result = rt.log[3]
    /\ Len(rt.sleeps) = 2

\* C13: the k-th attempt (k < max_attempts) failing with a retryable failure
\* is followed by one sleep of exactly
\* min(base_delay * exponential_base^(k-1), max_delay); nothing is slept
\* after the failure of attempt max_attempts; every delay is <= max_delay.
C13_BackoffDelays ==
    /\ Len(rt.sleeps) < rt.max_attempts
    /\ Len(rt.sleeps) =
          IF rt.pc \in {"sleep", "done"} /\ rt.log # <<>>
          THEN Len(rt.log) - 1 ELSE Len(rt.log)
    /\ \A k \in 1..Len(rt.sleeps) :
          /\ rt.log[k] \in RetryableExc
          /\ rt.sleeps[k] =
                Min(rt.base_delay * Pow(rt.exponential_base, k - 1), rt.max_delay)
          /\ rt.sleeps[k] <= rt.max_delay
    /\ \A k \in 1..Len(rt.log) :
          (rt.log[k] \in RetryableExc /\ k < rt.max_attempts) =>
              \/ Len(rt.sleeps) >= k
              \/ (k = Len(rt.log) /\ rt.pc = "sleep")

C13_Witness ==
    /\ rt.pc = "done"
    /\ rt.max_attempts = 3
    /\ Len(rt.log) = 3
    /\ rt.log[3] \in RetryableExc
    /\ Len(rt.sleeps) = 2
    /\ rt.sleeps[1] = rt.base_delay
    /\ rt.sleeps[1] < rt.max_delay
    /\ rt.sleeps[2] = rt.max_delay
    /\ rt.base_delay * rt.exponential_base > rt.max_delay

\* C14: when all max_attempts attempts fail with retryable failures the
\* caller receives the failure raised by the last attempt itself.
C14_LastFailurePropagated ==
    (/\ rt.pc = "done"
     /\ Len(rt.log) = rt.max_attempts
     /\ \A i \in 1..Len(rt.log) : rt.log[i] \in RetryableExc)
        => rt.result = rt.log[rt.max_attempts]

C14_Witness ==
    /\ rt.pc = "done"
    /\ rt.max_attempts >= 2
    /\ Len(rt.log) = rt.max_attempts
    /\ \A i \in 1..Len(rt.log) : rt.log[i] \in RetryableExc
    /\ rt.log[1] # rt.log[rt.max_attempts]
    /\ rt.result = rt.log[rt.max_attempts]

\* C15: an attempt failing with a failure outside the retryable set ends the
\* call at once with that failure: no later attempt, no sleep after it,
\* whatever the attempt number.
C15_FatalPropagates ==
    \A i \in 1..Len(rt.log) :
        rt.log[i] \in FatalExc =>
            /\ i = Len(rt.log)
            /\ rt.pc = "done"
            /\ rt.result = rt.log[i]
            /\ Len(rt.sleeps) = i - 1

C15_Witness ==
    /\ rt.pc = "done"
    /\ rt.max_attempts = 3
    /\ Len(rt.log) = 2
    /\ rt.log[1] \in RetryableExc
    /\ rt.log[2] \in FatalExc
    /\ rt.result = rt.log[2]
    /\ Len(rt.sleeps) = 1

\* ------------------------------------------------------ limiter: claims
\* caller c's call goes through _can_make_call in this step
LimCheckStep(c) == lim[c].pc = "called" /\ lim'[c].pc # "called"

\* caller c's call goes through _register_call and func in this step
LimRegisterStep(c) == lim[c].pc = "passed" /\ lim'[c].pc # "passed"

\* recorded timestamps that are not older than the window (age <= window)
NotOlderThanWindow ==
    Cardinality({i \in 1..Len(rl.calls) : now - rl.calls[i] <= rl.time_window})

\* recorded timestamps that are younger than the window (age < window)
YoungerThanWindow ==
    Cardinality({i \in 1..Len(rl.calls) : now - rl.calls[i] < rl.time_window})

\* what a call through the limiter does once admission is decided
LimiterEffects(c) ==
    /\ LimCheckStep(c) =>
          /\ lim'[c].invoked = 0
          /\ admitted' = admitted
          /\ Len(rl'.calls) <= Len(rl.calls)
          /\ \A i \in 1..Len(rl'.calls) :
                \E j \in 1..Len(rl.calls) : rl'.calls[i] = rl.calls[j]
          /\ lim'[c].pc = "passed" => lim'[c].out = "none"
          /\ lim'[c].pc # "passed" =>
                lim'[c].pc = "idle" /\ lim'[c].out = RateLimitExc
    /\ LimRegisterStep(c) =>
          /\ rl'.calls = Append(rl.calls, now)
          /\ lim'[c].invoked = 1
          /\ lim'[c].out \in LimResults

AdmittedInClosed(t) ==
    Cardinality({i \in 1..Len(admitted) :
        t - rl.time_window <= admitted[i] /\ admitted[i] <= t})

\* admitted calls whose admission time lies in (t - window, t]
AdmittedInHalfOpen(t) ==
    Cardinality({i \in 1..Len(admitted) :
        t - rl.time_window < admitted[i] /\ admitted[i] <= t})

C18_AtomicAdmission ==
    /\ YoungerThanWindow <= rl.max_calls
    /\ \A t \in 0..MaxLimTime : AdmittedInHalfOpen(t) <= rl.max_calls

\* -------------------------------------------------------- cache: claims
\* a get is made in this step
GetStep == cops' = cops + 1 /\ clast'.op = "get"

\* the entries stored for the keys other than k, in order
OtherEntries(c, k) == SelectSeq(c.entries, LAMBDA e : e.key # k)

\* C19: get(key) on an absent or expired key adds 1 to misses, removes the
\* expired entry and returns a miss; otherwise it adds 1 to the entry's
\* hit_count and to hits and returns the stored value; no other entry
\* changes in either case.
C19_Get ==
    [][GetStep =>
        LET k == clast'.key
            stored == k \in StoredKeys(cache)
            e == EntryOf(cache, k)
        IN  /\ OtherEntries(cache', k) = OtherEntries(cache, k)
            /\ cache'.stats.evictions = cache.stats.evictions
            /\ IF ~stored \/ now - e.timestamp > e.ttl
               THEN /\ cache'.stats.misses = cache.stats.misses + 1
                    /\ cache'.stats.hits = cache.stats.hits
                    /\ k \notin StoredKeys(cache')
                    /\ clast'.result = Miss
               ELSE /\ cache'.stats.hits = cache.stats.hits + 1
                    /\ cache'.stats.misses = cache.stats.misses
                    /\ k \in StoredKeys(cache')
                    /\ Len(cache'.entries) = Len(cache.entries)
                    /\ EntryOf(cache', k) = [e EXCEPT !.hit_count = @ + 1]
                    /\ clast'.result = e.value]_vars

C19_Witness ==
    /\ clast.op = "get"
    /\ clast.result = Miss
    /\ setLog[clast.key].at # NoTime
    /\ clast.key \notin StoredKeys(cache)
    /\ cache.stats.hits = 1
    /\ cache.stats.misses = 1

\* C20 as stated: after set(key, value, T), for every T passed (0 included)
\* and as long as the key is not set again, cleared or evicted, get returns
\* the value at every elapsed time < T and a miss at every elapsed time > T.
C20_TtlWindow ==
    [][GetStep =>
        LET L == setLog[clast'.key]
        IN  (L.at # NoTime /\ L.ttl # NoTtl) =>
                /\ now - L.at < L.ttl => clast'.result = L.value
                /\ now - L.at > L.ttl => clast'.result = Miss]_vars

\* a set, a clear, a sweep, a get_stats is made in this step
SetStep == cops' = cops + 1 /\ clast'.op = "set"
ClearStep == cops' = cops + 1 /\ clast'.op = "clear"
SweepStep == cops' = cops + 1 /\ clast'.op = "sweep"
StatsStep == cops' = cops + 1 /\ clast'.op = "stats"

\* the entries of c, as a set
EntrySet(c) == {c.entries[i] : i \in 1..Len(c.entries)}

\* e is least among the entries of c by hit_count, then by timestamp
LeastUsed(c, e) ==
    \A f \in EntrySet(c) :
        \/ e.hit_count < f.hit_count
        \/ e.hit_count = f.hit_count /\ e.timestamp <= f.timestamp

\* C21: set evicts exactly one entry when the cache holds max_size entries
\* and the key is not stored, and none otherwise; the evicted entry has the
\* smallest hit_count and, among those, the oldest timestamp.
C21_Eviction ==
    [][SetStep =>
        LET k == clast'.key
            gone == {e \in EntrySet(cache) : e.key \notin StoredKeys(cache')}
        IN  /\ k \in StoredKeys(cache')
            /\ \A e \in EntrySet(cache) :
                   e.key # k /\ e \notin gone => e \in EntrySet(cache')
            /\ IF Len(cache.entries) = cache.max_size
                  /\ k \notin StoredKeys(cache)
               THEN /\ Cardinality(gone) = 1
                    /\ \A e \in gone : LeastUsed(cache, e)
                    /\ cache'.stats.evictions = cache.stats.evictions + 1
                    /\ Len(cache'.entries) = Len(cache.entries)
               ELSE /\ gone = {}
                    /\ cache'.stats.evictions = cache.stats.evictions]_vars

\* max_size = 2: set A, set B, get A, set C leaves exactly A and C
C21_Witness ==
    /\ clast.op = "set"
    /\ cache.max_size = 2
    /\ cache.stats.evictions = 1
    /\ cache.stats.hits = 1
    /\ Len(cache.entries) = 2
    /\ cache.entries[1].hit_count = 1
    /\ cache.entries[1].key # clast.key
    /\ cache.entries[2].key = clast.key
    /\ cops = 4

\* C22: for every max_size >= 1, after any sequence of get, set, clear and
\* sweep by sequential callers, the number of entries stored never exceeds
\* max_size.
C22_Capacity == Len(cache.entries) <= cache.max_size

C22_Witness ==
    /\ clast.op = "set"
    /\ Len(cache.entries) = cache.max_size
    /\ cache.stats.evictions = 2

\* C23: the hit_rate reported by get_stats is hits / (hits + misses) when
\* hits + misses > 0 and 0 when no get was made; the reported size is the
\* number of entries stored.
C23_Stats ==
    cstat.reported =>
        LET total == cache.stats.hits + cache.stats.misses
        IN  /\ cstat.hit_rate.den > 0
            /\ IF total > 0
               THEN cstat.hit_rate.num * total
                        = cache.stats.hits * cstat.hit_rate.den
               ELSE cstat.hit_rate.num = 0
            /\ cstat.cache_size = Len(cache.entries)

C23_Witness ==
    /\ cstat.reported
    /\ cstat.hits = 1
    /\ cstat.misses = 1
    /\ cstat.hit_rate = [num |-> 1, den |-> 2]
    /\ cstat.cache_size = 1

\* C24: clear removes every entry and leaves hits, misses and evictions as
\* they were; every later get of a key is a miss until the key is set again.
C24_Clear ==
    [][/\ ClearStep =>
            /\ cache'.entries = <<>>
            /\ cache'.stats = cache.stats
       /\ (GetStep /\ setLog[clast'.key] = NoSet) =>
            /\ clast'.result = Miss
            /\ cache'.stats.misses = cache.stats.misses + 1]_vars

C24_Witness ==
    /\ clast.op = "clear"
    /\ cache.entries = <<>>
    /\ cache.stats.hits = 1
    /\ cache.stats.evictions = 1

\* C25 as stated: for a key that stays stored, hit_count never decreases
\* and only get changes it (set, clear, sweep and get_stats leave it as it
\* was).
C25_Original ==
    [][\A k \in StoredKeys(cache) \cap StoredKeys(cache') :
          /\ HitCountOf(cache', k) >= HitCountOf(cache, k)
          /\ HitCountOf(cache', k) # HitCountOf(cache, k) => GetStep]_vars

\* C25: for a key that stays stored and is not set again, hit_count never
\* decreases and only get of that key changes it, by 1; set of a stored key
\* stores a fresh entry whose hit_count is 0.
C25_HitCount ==
    [][\A k \in StoredKeys(cache) \cap StoredKeys(cache') :
          IF SetStep /\ clast'.key = k
          THEN HitCountOf(cache', k) = 0
          ELSE /\ HitCountOf(cache', k) >= HitCountOf(cache, k)
               /\ HitCountOf(cache', k) # HitCountOf(cache, k) =>
                      /\ GetStep /\ clast'.key = k
                      /\ HitCountOf(cache', k) = HitCountOf(cache, k) + 1]_vars

C25_Witness ==
    /\ clast.op = "sweep"
    /\ cache.stats.hits = 2
    /\ \E k \in StoredKeys(cache) : HitCountOf(cache, k) = 2

\* two keys with the same fields and values, in any order of the fields
SameFields(k1, k2) ==
    /\ k1.kind = "dict" /\ k2.kind = "dict"
    /\ {k1.items[i] : i \in 1..Len(k1.items)}
         = {k2.items[i] : i \in 1..Len(k2.items)}

\* C26: two structured keys with the same fields and values, in any field
\* order, get the same canonical key, so a value set under one is returned
\* by get under the other; a string key is used unchanged.
C26_Canonical ==
    /\ \A i \in 1..Len(klog) :
          klog[i].key.kind = "str" =>
              klog[i].cache_key = klog[i].key.items[1].value.repr
    /\ \A i \in 1..Len(klog), j \in 1..Len(klog) :
          (SameFields(klog[i].key, klog[j].key) /\ klog[i].result # TypeErrorExc) =>
              /\ klog[i].cache_key = klog[j].cache_key
              /\ (j = i + 1 /\ klog[i].op = "set" /\ klog[j].op = "get") =>
                     klog[j].result = klog[i].value

C26_Witness ==
    \E i \in 1..(Len(klog) - 1) :
        /\ klog[i].op = "set" /\ klog[i + 1].op = "get"
        /\ SameFields(klog[i].key, klog[i + 1].key)
        /\ klog[i].key.items # klog[i + 1].key.items
        /\ klog[i + 1].result = klog[i].value

\* C27 as stated: get and set never raise; a key that cannot be
\* canonicalized falls back to a string form and the call completes.
C27_NeverRaises ==
    \A i \in 1..Len(klog) : klog[i].result # TypeErrorExc

\* no caller is inside get or set and the sweep is not running
CacheQuiet ==
    /\ \A c \in Callers : thr[c].pc = "idle"
    /\ sw.pc = "idle"

\* C28 as stated: with concurrent get and set callers no hit is lost (hits
\* grows by the number of gets that returned a value), at most one entry is
\* evicted per set that finds the cache full, and the size never exceeds
\* max_size.
C28_ConcurrentCache ==
    /\ Len(cache.entries) <= cache.max_size
    /\ CacheQuiet =>
          /\ cache.stats.hits = chist.hits_done
          /\ cache.stats.evictions <= chist.full_sets

\* C30 as stated: when the sweep and the lazy expiry of get act on the same
\* expired entry, neither raises: whichever finds the entry removed treats
\* it as expired, and get returns a miss.
C30_SweepRace ==
    /\ sw.out # KeyErrorExc
    /\ \A c \in Callers : thr[c].op = "get" => thr[c].out # KeyErrorExc

\* a sweep of the manager is made in this step
MgrSweepStep == mlast'.n = mlast.n + 1 /\ mlast'.op = "sweep"

\* C29: one sweep removes from the news cache and from the model cache
\* every entry expired at the time of the sweep, and leaves every other
\* entry (value, timestamp, ttl, hit_count) and all counters unchanged.
C29_Sweep ==
    [][MgrSweepStep =>
        \A name \in {"news_cache", "model_cache"} :
            /\ mgr'[name].entries =
                  SelectSeq(mgr[name].entries,
                            LAMBDA e : ~(now - e.timestamp > e.ttl))
            /\ mgr'[name].stats = mgr[name].stats
            /\ mgr'[name].max_size = mgr[name].max_size
            /\ mgr'[name].default_ttl = mgr[name].default_ttl]_vars

C29_Witness ==
    /\ mlast.op = "sweep"
    /\ mlast.removed.news_cache = 1
    /\ mlast.removed.model_cache = 1
    /\ Len(mgr.news_cache.entries) = 1

\* C38: state = Open or HalfOpen implies last_failure_time is set; once set
\* it never decreases; a call that reaches an Open breaker whose
\* recovery_timeout has elapsed since last_failure_time is let through.
C38_LastFailureTime ==
    [][/\ cb'.state \in {"open", "half_open"} =>
             cb'.last_failure_time # NoTime
       /\ cb.last_failure_time # NoTime =>
             cb'.last_failure_time >= cb.last_failure_time
       /\ \A c \in Callers :
             (/\ GateStep(c)
              /\ cb.state = "open"
              /\ now - cb.last_failure_time >= cb.recovery_timeout) =>
                 /\ pc'[c] = "running"
                 /\ cb'.state = "half_open"]_vars

C38_Witness ==
    /\ cb.state = "half_open"
    /\ cb.failure_count >= 2
    /\ cb.last_failure_time >= 1
    /\ \E c \in Callers : pc[c] = "running" /\ seen[c] = "open"

\* C39: evictions grows by exactly 1 at each set that finds the cache full
\* with a new key, and at no other time (not when get or the sweep removes
\* an expired entry, not at clear, not when a stored key is overwritten);
\* hits + misses grows by 1 at each get and at no other time.
C39_Counters ==
    [][/\ cache'.stats.evictions =
             cache.stats.evictions
               + (IF /\ SetStep
                     /\ Len(cache.entries) = cache.max_size
                     /\ clast'.key \notin StoredKeys(cache)
                  THEN 1 ELSE 0)
       /\ cache'.stats.hits + cache'.stats.misses =
             cache.stats.hits + cache.stats.misses
               + (IF GetStep THEN 1 ELSE 0)]_vars

C39_Witness ==
    /\ clast.op = "sweep"
    /\ cops = 3
    /\ cache.entries = <<>>
    /\ cache.stats.evictions = 1

\* ---------------------------------------- background tasks: step helpers
\* task i of manager m exists and has not finished
Alive(m, i) == i \in DOMAIN bg[m].tasks /\ bg[m].tasks[i].pc # "done"

\* a stop call on manager m returns
StopReturns(m) == bg[m].stopping /\ ~bg'[m].stopping

\* an iteration of manager m's loop runs: it ends, or fails and is logged
\* (for the poll, also: it writes the snapshots)
IterationRuns(m) ==
    \/ bg'[m].ticks # bg[m].ticks
    \/ bg'[m].logged # bg[m].logged
    \/ (m = "health" /\ hm' # hm)

\* the iteration of task i of manager m fails
IterationFails(m, i) ==
    IF m = "cache" THEN SweepIteration(i, TRUE) ELSE PollWake(i, TRUE)

\* ------------------------------------------------ background tasks: claims
\* C31: for both managers, after any sequence of start and stop calls at
\* most one task is running; stop cancels the running task and returns only
\* when that task has finished, and no iteration of the loop runs while the
\* manager has no task (from the return of stop to the next start).
C31_StartStop ==
    /\ [](\A m \in Managers : Cardinality(Running(bg[m])) <= 1)
    /\ [][\A m \in Managers :
            /\ (~bg[m].stopping /\ bg'[m].stopping) =>
                    bg'[m].tasks[bg[m].handle].cancel
            /\ StopReturns(m) =>
                    /\ bg[m].tasks[bg[m].handle].pc = "done"
                    /\ Running(bg'[m]) = {}
                    /\ bg'[m].handle = NoTask
            /\ bg[m].handle = NoTask => ~IterationRuns(m)]_vars
C31_Witness ==
    \A m \in Managers :
        /\ Len(bg[m].tasks) = 2
        /\ bg[m].tasks[1] = [pc |-> "done", cancel |-> TRUE]
        /\ bg[m].handle = 2
        /\ bg[m].tasks[2].pc = "sleeping"
        /\ bg[m].ticks = 2

\* C32: an iteration that fails is logged and the task goes back to its
\* sleep; a task ends only if it was cancelled; a cancelled task always
\* ends.
C32_LogAndContinue ==
    /\ [][\A m \in Managers, i \in 1..MaxTasks :
            /\ IterationFails(m, i) =>
                    /\ bg'[m].logged = bg[m].logged + 1
                    /\ bg'[m].tasks[i].pc = "sleeping"
            /\ (Alive(m, i) /\ bg'[m].tasks[i].pc = "done") =>
                    bg[m].tasks[i].cancel]_vars
    /\ \A m \in Managers, i \in 1..MaxTasks :
            (i \in DOMAIN bg[m].tasks /\ bg[m].tasks[i].cancel)
                ~> (i \in DOMAIN bg[m].tasks /\ bg[m].tasks[i].pc = "done")
C32_Witness ==
    \A m \in Managers :
        /\ bg[m].logged = 1
        /\ bg[m].ticks = 1
        /\ bg[m].tasks = <<[pc |-> "done", cancel |-> TRUE]>>

\* -------------------------------------------------------- health: claims
\* C33: the overall status of a report is Unhealthy if a checker is
\* Unhealthy or memory or CPU usage is above 95; otherwise Degraded if a
\* checker is Degraded or memory or CPU usage is above 85; otherwise
\* Healthy.  With healthy checkers, 85 gives Healthy and 95 gives Degraded.
C33_OverallStatus ==
    hlast.status # "none" =>
        LET anyUnhealthy ==
                \E s \in Services : hlast.services[s].status = "unhealthy"
            anyDegraded ==
                \E s \in Services : hlast.services[s].status = "degraded"
            allHealthy ==
                \A s \in Services : hlast.services[s].status = "healthy"
            usage == {hlast.memory, hlast.cpu}
        IN  /\ hlast.status =
                IF anyUnhealthy \/ \E u \in usage : u > UnhealthyAbove
                THEN "unhealthy"
                ELSE IF anyDegraded \/ \E u \in usage : u > DegradedAbove
                     THEN "degraded"
                ELSE "healthy"
            /\ (allHealthy /\ usage = {DegradedAbove}) =>
                    hlast.status = "healthy"
            /\ (allHealthy /\ usage = {UnhealthyAbove}) =>
                    hlast.status = "degraded"
C33_Witness ==
    /\ hlast.status = "degraded"
    /\ hlast.memory = UnhealthyAbove
    /\ hlast.cpu = DegradedAbove
    /\ \A s \in Services : hlast.services[s].status = "healthy"

\* C34: a report holds what the checkers found when it was made and
\* changes neither the snapshots nor the task; the snapshots change only
\* when an iteration of the background loop ends, which writes for both
\* services what its two checks found; before the first iteration has
\* ended there is no snapshot.
C34_CachedSnapshots ==
    /\ [](/\ hlast.status # "none" =>
                /\ hlast.services["newsapi"]
                        = NewsCheckHealth(hlast.probed["newsapi"]).health
                /\ hlast.services["model"]
                        = ModelCheckHealth(hlast.probed["model"]).health
          /\ bg["health"].ticks = 0 =>
                \A s \in Services : GetCachedHealth(hm, s) = NoCheck
          /\ bg["health"].ticks > 0 =>
                \A s \in Services : GetCachedHealth(hm, s) # NoCheck)
    /\ [][/\ hlast' # hlast => (hm' = hm /\ bg' = bg)
          /\ (hm' # hm \/ bg'["health"].ticks # bg["health"].ticks) =>
                \E i \in 1..MaxTasks, np \in NewsProbes, mp \in ModelProbes :
                    /\ PollGather(i, np, mp)
                    /\ bg'["health"].ticks = bg["health"].ticks + 1
                    /\ GetCachedHealth(hm', "newsapi")
                            = NewsCheckHealth(np).health
                    /\ GetCachedHealth(hm', "model")
                            = ModelCheckHealth(mp).health]_vars
C34_Witness ==
    /\ bg["health"].ticks = 2
    /\ GetCachedHealth(hm, "newsapi").status = "unhealthy"
    /\ GetCachedHealth(hm, "model").status = "healthy"
    /\ hlast.services["newsapi"].status = "healthy"
    /\ hlast.services["model"].status = "degraded"

FormatStep == nlast'.n = nlast.n + 1

\* the values the news cache holds
CachedNews == {mgr.news_cache.entries[i].value :
                    i \in DOMAIN mgr.news_cache.entries}

\* C36: when the fetch made by format_news_context fails with a network
\* error, the call makes a further attempt, up to 3 attempts in total.
C36_RetriesFetch ==
    [][(FormatStep /\ nlast'.fetches >= 1
                   /\ nlast'.api[1] = "network_error") =>
            /\ nlast'.attempts >= 2
            /\ nlast'.attempts <= NewsMaxAttempts]_vars

\* C37: with the health manager loaded, a call that finds no entry for its
\* query and a Closed breaker, and whose fetch gives articles, returns the
\* text of the articles (no marker starting with "[") and stores it in the
\* news cache.
C37_SuccessfulFetch ==
    [][(/\ FormatStep
        /\ health_manager = "loaded"
        /\ nlast'.query \notin StoredKeys(mgr.news_cache)
        /\ cb.state = "closed"
        /\ nlast'.api = <<"articles">>) =>
            /\ nlast'.result = ArticlesText
            /\ nlast'.result \notin Markers
            /\ nlast'.query \in StoredKeys(mgr'.news_cache)
            /\ EntryOf(mgr'.news_cache, nlast'.query).value = ArticlesText]_vars

\* C40 as stated: no text starting with "[" is ever in the news cache; the
\* call that follows a failed call for the same query is not answered by
\* the cache, enters the breaker and fetches from the API; a call answered
\* by the cache returns the cached text, enters neither the breaker nor the
\* API and leaves the breaker as it was.
C40_Original ==
    /\ [](CachedNews \cap Markers = {})
    /\ [][FormatStep =>
            /\ (nlast.query = nlast'.query /\ nlast.result \in Markers) =>
                    /\ ~nlast'.hit
                    /\ nlast'.entered
                    /\ nlast'.fetches >= 1
            /\ nlast'.hit =>
                    /\ nlast'.result = EntryOf(mgr.news_cache, nlast'.query).value
                    /\ ~nlast'.entered
                    /\ nlast'.fetches = 0
                    /\ cb' = cb]_vars

\* C40, amended: as above, but the call that follows a failed call for the
\* same query fetches from the API only if the breaker lets it through
\* (Closed, HalfOpen, or Open with the recovery timeout elapsed); an Open
\* breaker rejects it without a fetch.
C40_NoErrorCached ==
    /\ [](CachedNews \cap Markers = {})
    /\ [][FormatStep =>
            /\ (nlast.query = nlast'.query /\ nlast.result \in Markers) =>
                    /\ ~nlast'.hit
                    /\ nlast'.entered
                    /\ nlast'.fetches = IF Admits(cb, now) THEN 1 ELSE 0
            /\ nlast'.hit =>
                    /\ nlast'.result = EntryOf(mgr.news_cache, nlast'.query).value
                    /\ ~nlast'.entered
                    /\ nlast'.fetches = 0
                    /\ cb' = cb]_vars
C40_Witness ==
    /\ nlast.hit
    /\ nlast.query = "k1"
    /\ nlast.result = ArticlesText
    /\ nlast.n = 4
    /\ cb.state = "open"
    /\ StoredKeys(mgr.news_cache) = {"k1"}


====
